---------------------------- MODULE Spec2Model ----------------------------
(***************************************************************************)
(* Verification model of the GBTools habitat workflows:                    *)
(*   HabitatStatesVersionX.py  (main pipeline, sections 1-13),             *)
(*   ChangeDetection.py        (per-class area and percent change),        *)
(*   DenningRSF.py             (breakpoint table of calRSF).               *)
(*                                                                         *)
(* Rasters are followed at one cell inside the AOI.  Every raster          *)
(* operation used by the scripts is local (cell by cell) except the focal, *)
(* zonal and distance transforms of the raster engine, whose result at the *)
(* cell is an input drawn from a small set.                                *)
(*                                                                         *)
(* Fixed point: canopy closure is held in units of 1e-7 percent (CCUnit),  *)
(* the age curve in units of 1e-4, scores and breakpoints in units of 1e-6,*)
(* areas in hundredths of a km2, percent change in tenths of a percent.    *)
(***************************************************************************)
EXTENDS Integers, Sequences, FiniteSets, TLC

(***************************************************************************)
(* Bounds of the model (not program constants).                            *)
(***************************************************************************)
MaxYearsForward == 117
MaxCount == 1000
NumClasses == 2
NumLayers == 2

(***************************************************************************)
(* Program constants.                                                      *)
(***************************************************************************)
NoData == -32768
CCUnit == 10000000
BaseYear == 2018
CellSize == 30
ScoreOne == 1000000

Abs(x) == IF x < 0 THEN -x ELSE x
Max(a, b) == IF a >= b THEN a ELSE b

\* n / d rounded to the nearest integer, halves away from zero (Python 2 round), d > 0
RoundDiv(n, d) == IF n >= 0 THEN (2 * n + d) \div (2 * d)
                            ELSE -((2 * (-n) + d) \div (2 * d))

(***************************************************************************)
(* Raster engine primitives at one cell.  NoData propagates through every  *)
(* arithmetic and conditional operation.                                   *)
(***************************************************************************)
IsNull(x) == x = NoData

Times(a, b) == IF IsNull(a) \/ IsNull(b) THEN NoData ELSE a * b

Plus(a, b) == IF IsNull(a) \/ IsNull(b) THEN NoData ELSE a + b

\* Con(cond, a, b) where cond is the 0/1 value of a relational raster
Con(cond, a, b) == IF IsNull(cond) THEN NoData
                   ELSE IF cond # 0 THEN a ELSE b

GreaterThan(a, k) == IF IsNull(a) THEN NoData ELSE IF a > k THEN 1 ELSE 0

EqualTo(a, k) == IF IsNull(a) THEN NoData ELSE IF a = k THEN 1 ELSE 0

\* the raster operator "|" : Boolean Or of two rasters (non-zero is true)
BooleanOr(a, b) == IF IsNull(a) \/ IsNull(b) THEN NoData
                   ELSE IF a # 0 \/ b # 0 THEN 1 ELSE 0

\* Pick(position, [r1, r2, ...]) : value of the raster at the given position
Pick(order, list) == IF IsNull(order) \/ order \notin 1..Len(list) THEN NoData
                     ELSE list[order]

\* Reclassify(.., RemapValue(remap), "DATA") : values missing from the table are kept
ReclassifyValue(v, remap) ==
    IF IsNull(v) THEN NoData
    ELSE IF \E i \in 1..Len(remap) : remap[i][1] = v
         THEN remap[CHOOSE i \in 1..Len(remap) : remap[i][1] = v][2]
         ELSE v

\* indices of the ranges [from, to, new] of a RemapRange that contain v
Matching(v, remap) == {i \in 1..Len(remap) : remap[i][1] <= v /\ v <= remap[i][2]}

MinOf(S) == CHOOSE x \in S : \A y \in S : x <= y

\* Reclassify(.., RemapRange(remap), "DATA") : a value on the bound shared by two
\* ranges goes to the range listed first; values in no range are kept
ReclassifyRange(v, remap) ==
    IF IsNull(v) THEN NoData
    ELSE IF Matching(v, remap) = {} THEN v
         ELSE remap[MinOf(Matching(v, remap))][3]

\* PolygonToRaster of the AOI unioned with a buffered footprint (GRIDCODE_1)
Burn(inside, cv) == IF inside THEN cv ELSE 0

(***************************************************************************)
(* Canopy closure against age (cc vs age curve), units of 1e-4.            *)
(***************************************************************************)
ClearingCC(age) == -30977 + (24784 * Abs(age)) - (218 * Abs(age) * Abs(age))

ForecastCC(age) == -30977 + (24784 * age) - (218 * age * age)

\* x * 0.0142857 for x in units of 1e-4, result in units of 1e-7 (floor)
TimesInv70(x) == ((x \div 10000) * 142857) + (((x % 10000) * 142857) \div 10000)

\* values a SHORT field can hold after a cursor writes the real v (units 1e-4, v >= 0)
ShortField(v) == {v \div 10000, RoundDiv(v, 10000)}

(***************************************************************************)
(* State.                                                                  *)
(*   pc     position of main() in HabitatStates (sec1 .. sec13, done,      *)
(*          error), "idle" while another script is followed                *)
(*   argv   the tool arguments read by main(): process (1 habitat states,  *)
(*          2 RSF only, 3 risk only), deliv_yr, fcstyr, popunit and the    *)
(*          optional newClearing, clearingyr, newHerb, newRoads, recRoads, *)
(*          recRdType, habDel ("#" when absent), cleanupON                 *)
(*   R      base input rasters at the cell (BaseInputs module)             *)
(*   TR     working rasters at the cell (tmpIP)                            *)
(*   ned    provenance of the decay-distance rasters TR.ned_rd,            *)
(*          TR.ned_tr100, TR.ned_tr500 (cost-distance transforms)          *)
(*   sec    secondary inputs derived by secInputs                          *)
(*   eng    values the raster engine yields at the cell for the score      *)
(*          expressions: TR.rsf_rng per season and TR.risk_rscld           *)
(*   O      output rasters at the cell                                     *)
(*   used   per season, the ladder branch whose values calRSF used         *)
(*   fc     years of the clearing polygons of newClearing that can cover   *)
(*          the cell (empty without newClearing)                           *)
(*   ran    functions main() has called, in call order                     *)
(*   pre    working rasters as read by the last scenario edit              *)
(*   log    error() messages of the run                                    *)
(*   cd     state of one iteration of the ChangeDetection report loop      *)
(*   bpt    a breakpoint table, a value and its class                      *)
(*   lic    a license check, or the start of a tool up to its license test *)
(*   den    a run of main() of DenningRSF at one cell                      *)
(***************************************************************************)
VARIABLES pc, argv, R, fc, TR, ned, sec, eng, O, used, ran, pre, log, cd, bpt, lic, den

vars == <<pc, argv, R, fc, TR, ned, sec, eng, O, used, ran, pre, log, cd, bpt, lic, den>>

(***************************************************************************)
(* Input sets.                                                             *)
(***************************************************************************)
DelivYears == {BaseYear}

FcstYears == {BaseYear, BaseYear + 1, BaseYear + 2, BaseYear + 12, BaseYear + 57,
              BaseYear + 112, BaseYear + 113, BaseYear + MaxYearsForward}

ClearingYears == {1980, 1995, 2010, 2030}

\* a base cell: land cover code, regen flag, regen age, percent conifer, crown closure
\* (whole percents, in CCUnit)
BaseCell(lc, rg, ra, c) == [lcov_gbz |-> lc, regen_gbz |-> rg, regenage |-> ra,
                            pctcon_gbz |-> 60, cc_gbz |-> c * CCUnit]

BaseCells == {BaseCell(lc, rg, ra, c) :
                 lc \in {1, 5}, rg \in {0, 1}, ra \in {0, 45}, c \in {30, 80}}

NoTR == [lcov |-> NoData, rgn |-> NoData, rgnage |-> NoData, cc_rgn |-> NoData,
         cc_trd |-> NoData, pctcon |-> NoData]

NoNed == [rd |-> "none", tr100 |-> "none", tr500 |-> "none"]

NoSec == [forest |-> NoData, erase |-> NoData, rsflcov |-> NoData, noveg |-> NoData,
          uherb |-> NoData, wtree |-> NoData, utree |-> NoData, wherb |-> NoData,
          shrub |-> NoData, sc_x_utree |-> NoData,
          dfor_ergn |-> NoData, dfor_uhrb |-> NoData, dfor_wtree |-> NoData,
          dfor_rscld |-> NoData, dfor_utree |-> NoData, dfor_envg |-> NoData,
          edges |-> <<>>]

\* number of records of each mask when every class is present and none covers
\* the extent
AllPresent == <<2, 2, 2, 2, 2, 2>>

NoO == [rsf_s1 |-> NoData, rsf_s2 |-> NoData, rsf_s3 |-> NoData, rsf_max |-> NoData,
        rsf_class |-> NoData, risk |-> NoData, risk_class |-> NoData,
        habState |-> NoData]

(***************************************************************************)
(* 2  clipData: clip the updateable inputs to the AOI (bndgrid = 1).       *)
(***************************************************************************)
clipData(r) ==
    [lcov   |-> Times(1, r.lcov_gbz),
     rgn    |-> Times(1, r.regen_gbz),
     rgnage |-> Times(1, r.regenage),
     pctcon |-> Times(1, r.pctcon_gbz),
     cc_rgn |-> Con(EqualTo(Times(1, r.regen_gbz), 1), r.cc_gbz, 0),
     cc_trd |-> Con(EqualTo(Times(1, r.regen_gbz), 0), r.cc_gbz, 0)]

clipNed(p, n) == IF p = 2 THEN n
                 ELSE [rd |-> "clip", tr100 |-> "clip", tr500 |-> "clip"]

(***************************************************************************)
(* 3  addClearing: attributes of the clearing polygon that covers the cell.*)
(***************************************************************************)
\* GRIDCODE (landcover) relative to age
ClearingGridcode(age) ==
    IF age <= 3 THEN 7
    ELSE IF age > 3 /\ age <= 17 THEN 3
    ELSE IF age > 17 /\ age <= 30 THEN 3
    ELSE 1

ClearingRegen(fcst, yr) == IF (fcst - yr) >= 0 /\ (fcst - yr) <= 50 THEN 1 ELSE 0

\* variant of the EXISTS flag that selects every polygon
ClearingExistsAlways(fcst, yr) == 1

ClearingExists(fcst, yr) == IF (fcst - yr) >= 0 THEN 1 ELSE 0

\* variant of the cursor rows without the clamp of CC at 0
ClearingRowsUnclamped(yr, fcst) ==
    LET age == BaseYear - yr
        CC  == ClearingCC(age)
    IN {[AGE |-> age, REGEN |-> ClearingRegen(fcst, yr), CC |-> c,
         GRIDCODE |-> ClearingGridcode(age), EXISTS |-> ClearingExists(fcst, yr)] :
           c \in {CC \div 10000, RoundDiv(CC, 10000)}}

\* rows of tFC.clearingclip the update cursor can produce for a polygon cleared in yr
ClearingRows(yr, fcst) ==
    LET age == BaseYear - yr
        CC  == ClearingCC(age)
    IN {[AGE |-> age, REGEN |-> ClearingRegen(fcst, yr), CC |-> c,
         GRIDCODE |-> ClearingGridcode(age), EXISTS |-> ClearingExists(fcst, yr)] :
           c \in (IF CC < 0 THEN {0} ELSE ShortField(CC))}

\* row of a polygon when no clearing-year field is given
ClearingRowNoYear == [AGE |-> 0, REGEN |-> 1, CC |-> 0, GRIDCODE |-> 7, EXISTS |-> 1]

\* Mosaic_management([target, source], target, "LAST")
Mosaic(target, source) == IF IsNull(source) THEN target ELSE source

\* row = attributes of the polygon over the cell (EXISTS = 0 when none is selected
\* by the "_EXISTS = 1" layer); only selected polygons are converted to raster
addClearing(w, r, row) ==
    LET drawn    == row.EXISTS = 1
        clr_rgn  == IF drawn THEN row.REGEN ELSE NoData
        clr_age  == IF drawn THEN row.AGE ELSE NoData
        clr_cc   == IF drawn THEN row.CC * CCUnit ELSE NoData
        clr_lcov == IF drawn THEN row.GRIDCODE ELSE NoData
        rgn2     == Mosaic(w.rgn, clr_rgn)
    IN [w EXCEPT !.rgn    = rgn2,
                 !.rgnage = Mosaic(w.rgnage, clr_age),
                 !.cc_rgn = Mosaic(w.cc_rgn, clr_cc),
                 !.cc_trd = Con(EqualTo(rgn2, 0), r.cc_gbz, 0),
                 !.lcov   = Mosaic(w.lcov, clr_lcov)]

(***************************************************************************)
(* 4, 5  addLnHerb, addRoads: pick-by-priority over the buffered lines.    *)
(***************************************************************************)
\* variant of prepLines that burns the code over the whole AOI
prepLinesEverywhere(inRoW, cv) == cv

\* prepLines: TR.change holds cv inside the right-of-way, 0 elsewhere
prepLines(inRoW, cv) == Burn(inRoW, cv)

addLnHerb(w, inRoW) ==
    LET change == prepLines(inRoW, 3)
        order  == ReclassifyValue(change, <<<<3, 1>>, <<0, 2>>>>)
    IN [w EXCEPT !.lcov   = Pick(order, <<change, w.lcov>>),
                 !.cc_rgn = Pick(order, <<0, w.cc_rgn>>),
                 !.cc_trd = Pick(order, <<0, w.cc_trd>>),
                 !.rgn    = Pick(order, <<0, w.rgn>>),
                 !.pctcon = Pick(order, <<0, w.pctcon>>)]

addLnHerbNed(p, n) == IF p = 1 \/ p = 3
                      THEN [n EXCEPT !.tr100 = "addLnHerb", !.tr500 = "addLnHerb"]
                      ELSE n

addRoads(w, inRoW) ==
    LET change == prepLines(inRoW, 7)
        order  == ReclassifyValue(change, <<<<7, 1>>, <<0, 2>>>>)
    IN [w EXCEPT !.lcov   = Pick(order, <<change, w.lcov>>),
                 !.cc_rgn = Pick(order, <<0, w.cc_rgn>>),
                 !.cc_trd = Pick(order, <<0, w.cc_trd>>),
                 !.rgn    = Pick(order, <<0, w.rgn>>)]

addRoadsNed(p, n) == IF p = 1 \/ p = 3 THEN [n EXCEPT !.rd = "addRoads"] ELSE n

(***************************************************************************)
(* 6  rclmRoads: reclaimed roads become barren, herb, or match neighbours. *)
(***************************************************************************)
rclmLandcover(recRdType) ==
    LET t == IF recRdType = "#" THEN "Barren" ELSE recRdType
    IN IF t = "Barren" THEN 7 ELSE IF t = "Herb" THEN 3 ELSE 99

\* focal = FocalStatistics results at the cell for the five rasters (NoData when the
\* whole annulus is masked out)
rclmRoads(w, recRdType, inRoW, focal) ==
    LET lc     == rclmLandcover(recRdType)
        ulc    == 0
        change == Burn(inRoW, lc)
    IN IF lc = 99
       THEN LET s(name) == Con(EqualTo(change, 99), focal[name], w[name])
            IN [w EXCEPT !.lcov   = Con(IF IsNull(s("lcov")) THEN 1 ELSE 0, 3, s("lcov")),
                         !.cc_rgn = s("cc_rgn"),
                         !.cc_trd = s("cc_trd"),
                         !.rgn    = Con(IF IsNull(s("rgn")) THEN 1 ELSE 0, 0, s("rgn")),
                         !.pctcon = s("pctcon")]
       ELSE LET order == ReclassifyValue(change, <<<<lc, 1>>, <<0, 2>>>>)
            IN [w EXCEPT !.lcov   = Pick(order, <<change, w.lcov>>),
                         !.cc_rgn = Pick(order, <<ulc, w.cc_rgn>>),
                         !.cc_trd = Pick(order, <<ulc, w.cc_trd>>),
                         !.rgn    = Pick(order, <<ulc, w.rgn>>),
                         !.pctcon = Pick(order, <<ulc, w.pctcon>>)]

\* 6.6: cost distance to the remaining roads, or a constant 0 raster when none remains
rclmRoadsNed(n, roadsRemain) ==
    [n EXCEPT !.rd = IF roadsRemain THEN "rclmRoads" ELSE "zero"]

\* focal results the engine can yield at a footprint cell: all NoData, or a majority
\* class / mean of the surrounding cells
NoFocal == [lcov |-> NoData, cc_rgn |-> NoData, cc_trd |-> NoData, rgn |-> NoData,
            pctcon |-> NoData]

FocalResults ==
    {NoFocal,
     [lcov |-> 1, cc_rgn |-> 0, cc_trd |-> 55 * CCUnit, rgn |-> 0, pctcon |-> 70]}

(***************************************************************************)
(* 7  fAge: forecast succession by "age" years.                            *)
(***************************************************************************)
\* 7.0 forecast age of the block
fAgeRgnageFcst(w, age) ==
    LET aFA == Plus(age, w.rgnage) IN Con(GreaterThan(aFA, 9999), 0, aFA)

\* 7.1 Con((rgnage_fcst > 50) | (rgnage_fcst) == 0, 0, 1): "|" binds tighter than "=="
fAgeRegen(rgnage_fcst) ==
    Con(EqualTo(BooleanOr(GreaterThan(rgnage_fcst, 50), rgnage_fcst), 0), 0, 1)

\* variant of 7.2 without the MAXIMUM against 0
fAgeClosureNoFloor(cc_rgn, age) ==
    IF IsNull(cc_rgn) THEN NoData
    ELSE LET CC        == ForecastCC(age)
             cellStats == ((70 * CCUnit) - cc_rgn) \div CCUnit
         IN cc_rgn + TimesInv70(CC * cellStats)

\* 7.2 incremented crown closure (closure before aging is a whole percent)
fAgeClosure(cc_rgn, age) ==
    IF IsNull(cc_rgn) THEN NoData
    ELSE LET CC        == ForecastCC(age)
             cellStats == Max((70 * CCUnit) - cc_rgn, 0) \div CCUnit
         IN cc_rgn + TimesInv70(CC * cellStats)

fAge(w, age) ==
    LET rgnage_fcst == fAgeRgnageFcst(w, age)
        rgn_fcst    == fAgeRegen(rgnage_fcst)
        cc_rgnupd   == fAgeClosure(w.cc_rgn, age)
        order       == Con(GreaterThan(rgnage_fcst, 50), 1, 2)
        order2      == Con(GreaterThan(rgnage_fcst, 30), 1, 2)
    IN [w EXCEPT !.rgn    = rgn_fcst,
                 !.cc_trd = Pick(order, <<cc_rgnupd, w.cc_trd>>),
                 !.cc_rgn = Times(cc_rgnupd, rgn_fcst),
                 !.pctcon = Con(EqualTo(order, 1), 90, w.pctcon),
                 !.lcov   = Con(EqualTo(order2, 1), 1, w.lcov)]

(***************************************************************************)
(* 8  secInputs: land-cover masks and species composition.                 *)
(***************************************************************************)
secInputs(w, p) ==
    LET forest  == ReclassifyRange(w.lcov, <<<<1, 2, 1>>, <<3, 10, 0>>>>)
        erase   == ReclassifyValue(w.rgn, <<<<1, 0>>, <<0, 1>>>>)
        rsflcov == Times(erase, w.lcov)
        noveg   == ReclassifyRange(rsflcov, <<<<1, 5, 0>>, <<6, 10, 1>>>>)
        uherb   == ReclassifyRange(rsflcov, <<<<1, 2, 0>>, <<3, 3, 1>>, <<4, 10, 0>>>>)
        wtree   == ReclassifyRange(rsflcov, <<<<1, 1, 0>>, <<2, 2, 1>>, <<3, 10, 0>>>>)
        utree   == ReclassifyRange(rsflcov, <<<<1, 1, 1>>, <<2, 10, 0>>>>)
        wherb   == ReclassifyRange(rsflcov, <<<<1, 3, 0>>, <<4, 4, 1>>, <<5, 10, 0>>>>)
        shrub   == ReclassifyRange(rsflcov, <<<<1, 4, 0>>, <<5, 5, 1>>, <<6, 10, 0>>>>)
    IN IF p # 3
       THEN [forest |-> forest, erase |-> erase, rsflcov |-> rsflcov, noveg |-> noveg,
             uherb |-> uherb, wtree |-> wtree, utree |-> utree, wherb |-> wherb,
             shrub |-> shrub, sc_x_utree |-> Times(utree, w.pctcon)]
       ELSE [NoSec EXCEPT !.forest = forest]

(***************************************************************************)
(* 8.1  the distance of each class to its edge.                            *)
(***************************************************************************)
lblProcess == <<"regen", "upland herb", "wet treed", "forest/nonforest",
                "upland treed", "non-veg">>

opMA == <<"dfor_ergn", "dfor_uhrb", "dfor_wtree", "dfor_rscld", "dfor_utree", "dfor_envg">>

\* the masks of the six classes
ipLC(s, w) == <<w.rgn, s.uherb, s.wtree, s.forest, s.utree, s.noveg>>

\* Exp(-0.001 * d) and Exp(-d / 500) in millionths, for the distances explored
ExpForest(d) == IF d = 0 THEN ScoreOne ELSE 606531
ExpClass(d) == IF d = 0 THEN ScoreOne ELSE 367879

\* distFEdge: the distance to the contour of the mask, rescaled to 0..1
distFEdge(ip, isForest, d) ==
    IF isForest THEN ExpForest(d)
    ELSE IF IsNull(ip) THEN NoData ELSE (ScoreOne - ExpClass(d)) * ip

\* whether the loop of 8.1 hands class i to distFEdge
distFEdgeInvoked(i, p, numrecs) ==
    IF i <= 3 /\ p # 3 THEN numrecs[i] > 1 ELSE (p # 3 \/ i = 4)

\* the raster that 8.1 writes for class i (none for a class it skips)
edgeOutput(i, ip, p, numrecs, d) ==
    IF distFEdgeInvoked(i, p, numrecs) THEN distFEdge(ip, i = 4, d)
    ELSE IF i <= 3 /\ p # 3
         THEN IF i = 1 THEN ip ELSE ReclassifyValue(ip, <<<<1, 0>>>>)
         ELSE NoData

processLandcover(s, w, p, numrecs, d) ==
    [f \in DOMAIN NoSec |->
        IF f \notin {opMA[i] : i \in 1..6} \cup {"edges"} THEN s[f]
        ELSE IF f = "edges"
             THEN SelectSeq(lblProcess,
                            LAMBDA l : \E i \in 1..6 : lblProcess[i] = l
                                                       /\ distFEdgeInvoked(i, p, numrecs))
             ELSE LET i == CHOOSE k \in 1..6 : opMA[k] = f
                  IN edgeOutput(i, ipLC(s, w)[i], p, numrecs, d)]

\* land-cover codes that secInputs extracts as the shrub class
ShrubCodes == {v \in 1..10 : ReclassifyRange(v, <<<<1, 4, 0>>, <<5, 5, 1>>, <<6, 10, 0>>>>) = 1}

(***************************************************************************)
(* 9  calRSF: coefficient and breakpoint ladder (population unit, season), *)
(* coefficients in units of 1e-5, breakpoints in units of 1e-6.            *)
(***************************************************************************)
RSFLadder ==
<<
  [popunit |-> "Yellowhead", season |-> 1, op |-> "rsf_s1",
   c |-> <<-9100, -26500, -27500, 51300, 50300, 34200, -800, -100, 100, -6, -195000, 50900, -24600, -76800, -413000, -572>>,
   bp |-> <<51496, 72563, 88948, 107674, 135763, 170874, 205985, 241096, 304296>>],
  [popunit |-> "Yellowhead", season |-> 2, op |-> "rsf_s2",
   c |-> <<-11100, -21400, -53000, -33300, 49700, -1500, -1200, -1000, -100, -29, -134700, -800, -58100, -130800, -410400, -703>>,
   bp |-> <<34278, 48969, 62027, 76718, 91408, 109363, 132215, 161597, 204036>>],
  [popunit |-> "Yellowhead", season |-> 3, op |-> "rsf_s3",
   c |-> <<-2500, -18200, -42100, -48700, 39800, 5400, -1100, -1000, -100, -55, -140700, -800, -54700, -131500, -417100, -717>>,
   bp |-> <<28076, 40554, 53032, 65510, 79548, 96706, 116983, 143499, 184053>>],
  [popunit |-> "Grande Cache", season |-> 1, op |-> "rsf_s1",
   c |-> <<-146800, -152800, -162200, -515900, 122400, -395500, -1500, -200, -500, 5, -77200, -61900, -97300, 8300, -74600, -445>>,
   bp |-> <<11980, 35939, 44924, 59898, 77868, 92842, 107817, 131776, 161725>>],
  [popunit |-> "Grande Cache", season |-> 2, op |-> "rsf_s2",
   c |-> <<-113500, -218800, -274500, -576200, 71300, 82300, -2000, -300, -1400, 88, -162900, -168700, -28600, 103500, -280900, -1261>>,
   bp |-> <<10309, 17181, 24053, 30926, 41234, 51543, 68724, 92777, 151192>>],
  [popunit |-> "Grande Cache", season |-> 3, op |-> "rsf_s3",
   c |-> <<-14800, -237400, -334200, -430500, -186400, -346800, -2900, -1800, -1000, 208, -150000, -147300, -95700, -143900, -169000, -997>>,
   bp |-> <<17764, 31975, 42634, 56845, 71056, 88820, 110137, 142112, 206062>>],
  [popunit |-> "Clearwater", season |-> 1, op |-> "rsf_s1",
   c |-> <<-1057400, -423300, 411000, -1012500, 453900, 22100, -3800, -13700, 5700, 60, -237100, 0, -127700, -27300, -278400, -42>>,
   bp |-> <<505993, 606419, 641182, 795683, 880659, 915422, 938597, 961773, 977223>>],
  [popunit |-> "Clearwater", season |-> 2, op |-> "rsf_s2",
   c |-> <<-161600, -226600, -314800, -801700, -252300, -228300, -800, 1000, -2400, 90, -194200, 0, -55000, -408530, -384700, -476>>,
   bp |-> <<15890, 22700, 31780, 40860, 49940, 59020, 70370, 81720, 97610>>],
  [popunit |-> "Clearwater", season |-> 3, op |-> "rsf_s3",
   c |-> <<-434700, -206100, -278200, -213900, -361900, -329700, -1400, 1200, -2700, 43, -335900, 0, -83700, -383800, -270700, -9>>,
   bp |-> <<1740, 5220, 8701, 13921, 19141, 26102, 34803, 45244, 71346>>],
  [popunit |-> "Livingstone-Castle", season |-> 1, op |-> "rsf_s1",
   c |-> <<-1000000, -194500, -65100, -1000000, -13300, -164800, -900, 3500, -700, 53, -8700, 0, -156600, -146300, -130400, 619>>,
   bp |-> <<109723, 152947, 199496, 242720, 275969, 302569, 325843, 355767, 392342>>],
  [popunit |-> "Livingstone-Castle", season |-> 2, op |-> "rsf_s2",
   c |-> <<-1000000, -579200, -128900, -1000000, -124000, -138200, -1600, 6400, -1300, 90, 34500, 0, -230100, -104200, -317800, -357>>,
   bp |-> <<60329, 97675, 120658, 137894, 155131, 175241, 203969, 238442, 290153>>],
  [popunit |-> "Livingstone-Castle", season |-> 3, op |-> "rsf_s3",
   c |-> <<-1000000, -554400, -106400, -1000000, -91600, 112700, -900, 400, -1500, -8, -87500, 0, -351800, 238500, -400500, -1061>>,
   bp |-> <<23971, 38952, 47941, 56930, 69160, 83897, 107868, 137831, 182776>>],
  [popunit |-> "Swan Hills", season |-> 1, op |-> "rsf_s1",
   c |-> <<-127900, 345500, -109800, -180700, 410000, 268200, -800, -5000, -600, 83, -206900, 47300, -460100, -581000, 240600, -381>>,
   bp |-> <<20635, 38691, 56747, 72224, 87700, 105756, 134130, 196036, 286315>>],
  [popunit |-> "Swan Hills", season |-> 2, op |-> "rsf_s2",
   c |-> <<-112300, -143900, -294800, -341500, -170800, -314100, -2700, -1700, -1400, 104, -105800, 18000, -265500, -27200, -274800, -2172>>,
   bp |-> <<3485, 6971, 10456, 13941, 17436, 22654, 29625, 40081, 57507>>],
  [popunit |-> "Swan Hills", season |-> 3, op |-> "rsf_s3",
   c |-> <<-17700, -39300, -130700, -159400, -164300, -166900, -3400, -2300, 10, -14, -159000, -163500, 65300, -102100, 150300, -864>>,
   bp |-> <<2367, 4734, 7101, 10651, 14202, 20119, 28404, 40238, 61541>>]
>>

PopUnits == {RSFLadder[i].popunit : i \in 1..Len(RSFLadder)}

\* population units the tool form can pass: the five modelled units, the disabled
\* Chinchaga unit and any other text
PopUnitArgs == PopUnits \cup {"Chinchaga", "Other"}

\* variant of the ladder with a final else that falls back to the first unit
LadderBranchDefault(pu, season) ==
    LET hits == {i \in 1..Len(RSFLadder) :
                    RSFLadder[i].popunit = pu /\ RSFLadder[i].season = season}
    IN IF hits = {} THEN season ELSE MinOf(hits)

\* the branch of the if/elif ladder taken for (popunit, season); 0 when none is taken
LadderBranch(pu, season) ==
    LET hits == {i \in 1..Len(RSFLadder) :
                    RSFLadder[i].popunit = pu /\ RSFLadder[i].season = season}
    IN IF hits = {} THEN 0 ELSE MinOf(hits)

\* variant whose third range starts at bp1 instead of bp2
RSFRemapOverlap(bp) ==
    <<<<0, bp[1], 1>>, <<bp[1], bp[2], 2>>, <<bp[1], bp[3], 3>>, <<bp[3], bp[4], 4>>,
      <<bp[4], bp[5], 5>>, <<bp[5], bp[6], 6>>, <<bp[6], bp[7], 7>>,
      <<bp[7], bp[8], 8>>, <<bp[8], bp[9], 9>>, <<bp[9], ScoreOne, 10>>>>

\* RemapRange of the ten seasonal classes
RSFRemap(bp) ==
    <<<<0, bp[1], 1>>, <<bp[1], bp[2], 2>>, <<bp[2], bp[3], 3>>, <<bp[3], bp[4], 4>>,
      <<bp[4], bp[5], 5>>, <<bp[5], bp[6], 6>>, <<bp[6], bp[7], 7>>,
      <<bp[7], bp[8], 8>>, <<bp[8], bp[9], 9>>, <<bp[9], ScoreOne, 10>>>>

\* CellStatistics(.., "MAXIMUM") of three class rasters (NoData is ignored)
CellMax3(a, b, c) == LET S == {a, b, c} \ {NoData}
                     IN IF S = {} THEN NoData ELSE CHOOSE x \in S : \A y \in S : x >= y

\* variant with the secondary tier starting one class early
RSFClassRemapShifted == <<<<1, 3, 0>>, <<4, 7, 1>>, <<8, 10, 2>>>>

\* 9.7 non-critical / secondary / primary
RSFClassRemap == <<<<1, 4, 0>>, <<5, 7, 1>>, <<8, 10, 2>>>>

classifyToThreeTier(rsf_max) == ReclassifyRange(rsf_max, RSFClassRemap)

\* the while loop of 9.0-9.3.  local = 0 while c1..c16, bp1..bp9 and op are unbound,
\* otherwise the index of the branch that last assigned them.  st = [o, used, err].
RECURSIVE calRSFLoop(_, _, _, _, _)
calRSFLoop(season, pu, local, rsf_rng, st) ==
    IF season >= 4 THEN st
    ELSE LET b     == LadderBranch(pu, season)
             local2 == IF b # 0 THEN b ELSE local
         IN IF local2 = 0
            THEN [st EXCEPT !.err = "NameError"]
            ELSE LET br  == RSFLadder[local2]
                     cls == ReclassifyRange(rsf_rng[season], RSFRemap(br.bp))
                 IN calRSFLoop(season + 1, pu, local2, rsf_rng,
                               [st EXCEPT !.o = [@ EXCEPT ![br.op] = cls],
                                          !.used = Append(@, local2)])

\* variant of 9.5 with the two rasters of the Pick list exchanged
applyHabitatDeletionsSwapped(rsf_max, inDel) ==
    LET deletion == Burn(inDel, 1)
        order    == ReclassifyValue(deletion, <<<<1, 2>>, <<0, 1>>>>)
    IN Pick(order, <<0, rsf_max>>)

\* 9.5 habitat deletions: cells inside a deletion polygon are forced to 0
applyHabitatDeletions(rsf_max, inDel) ==
    LET deletion == Burn(inDel, 1)
        order    == ReclassifyValue(deletion, <<<<1, 2>>, <<0, 1>>>>)
    IN Pick(order, <<rsf_max, 0>>)

\* 9.4 maximum of the three seasons, 9.5 habitat deletions when given
rsfMax(o, habDel, inDel) ==
    LET mx == CellMax3(o.rsf_s1, o.rsf_s2, o.rsf_s3)
    IN IF habDel # "#" THEN applyHabitatDeletions(mx, inDel) ELSE mx

\* 9.4-9.7 rsf_max and its three tiers are saved
saveRsfMax(st, rsf_max) ==
    [st EXCEPT !.o = [@ EXCEPT !.rsf_max = rsf_max,
                               !.rsf_class = classifyToThreeTier(rsf_max)]]

\* 9.4-9.7, reached when the loop of 9.0-9.3 raised nothing
calRSFMax(st, habDel, inDel) ==
    IF st.err # "" THEN st ELSE saveRsfMax(st, rsfMax(st.o, habDel, inDel))

calRSF(o, pu, habDel, inDel, rsf_rng) ==
    calRSFMax(calRSFLoop(1, pu, 0, rsf_rng, [o |-> o, used |-> <<>>, err |-> ""]),
              habDel, inDel)

(***************************************************************************)
(* 10  calRisk, 11  calHState.                                             *)
(***************************************************************************)
RiskRemap ==
    <<<<0, 10000, 0>>, <<10000, 100000, 1>>, <<100000, 200000, 2>>,
      <<200000, 300000, 3>>, <<300000, 400000, 4>>, <<400000, 500000, 5>>,
      <<500000, 600000, 6>>, <<600000, 700000, 7>>, <<700000, 800000, 8>>,
      <<800000, 900000, 9>>, <<900000, ScoreOne, 10>>>>

\* variant with the source tier starting one class early
RiskClassRemapShifted == <<<<0, 4, 1>>, <<5, 10, -1>>>>

\* 10.4 sink / source
RiskClassRemap == <<<<0, 5, 1>>, <<6, 10, -1>>>>

riskToSinkSource(risk) == ReclassifyRange(risk, RiskClassRemap)

calRisk(o, risk_rscld) ==
    LET risk == ReclassifyRange(risk_rscld, RiskRemap)
    IN [o EXCEPT !.risk = risk, !.risk_class = riskToSinkSource(risk)]

\* variant multiplying by the 11-class risk raster instead of the sink/source raster
calHStateFromRisk(o) == [o EXCEPT !.habState = Times(o.risk, o.rsf_class)]

calHState(o) == [o EXCEPT !.habState = Times(o.risk_class, o.rsf_class)]

(***************************************************************************)
(* DenningRSF calRSF 6.2: the seven denning classes.                       *)
(***************************************************************************)
DenningRemap ==
    <<<<0, 100, 0>>, <<100, 7843, 1>>, <<7843, 15686, 2>>, <<15686, 23529, 3>>,
      <<23529, 31373, 4>>, <<31373, 43137, 5>>, <<43137, ScoreOne, 6>>>>

(***************************************************************************)
(* main() of HabitatStates: one action per section.  An optional argument  *)
(* is "#" when absent.  Per-cell inputs (is the cell under a polygon, in a *)
(* right-of-way, what the focal statistic yields) are drawn by the section *)
(* that reads them.                                                        *)
(***************************************************************************)
cdIdle == [pc |-> "idle", names |-> <<>>, sizes |-> <<>>, props |-> <<>>,
           refRasters |-> <<>>, scnroRasters |-> <<>>, maskRasters |-> <<>>,
           checked |-> 0, aligned |-> 0, refAligned |-> {}, scnroAligned |-> {},
           errors |-> 0, iter |-> 0, name |-> "", refLayer |-> "", scnroLayer |-> "",
           cells |-> <<>>, ref |-> <<>>, scnro |-> <<>>,
           change |-> <<>>, written |-> 0, ChangeDetectionArea |-> <<>>,
           refAreaValues |-> <<>>, scnroAreaValues |-> <<>>, pctChange |-> <<>>,
           ref_sum_area_0 |-> NoData, scnro_sum_area_0 |-> NoData, totalArea |-> 0,
           changedArea |-> 0, totalPctChange |-> 0, plots |-> 0, err |-> "",
           errAt |-> ""]

bptIdle == [pc |-> "idle", table |-> "", branch |-> 0, remap |-> <<>>, value |-> 0,
            class |-> NoData]

licIdle == [pc |-> "idle", tool |-> "", folder |-> "", fn |-> "", status |-> "",
            checkout |-> "", go |-> "", msg |-> "", product |-> "", ext |-> "",
            raised |-> "", info |-> "", spatial |-> "", made |-> <<>>]

denIdle == [pc |-> "idle", newRoads |-> "#", rplcRoads |-> "false", decRoads |-> "#",
            habDel |-> "#", cleanupON |-> "true", mask_den |-> NoData, mask |-> NoData,
            before |-> NoData, inside |-> FALSE, rsf_rscld |-> NoData,
            rsf_rng |-> NoData, denRSF |-> NoData, ran |-> <<>>, err |-> "",
            errors |-> 0]

\* argument records; an optional argument that is not read is left at "#"
Args(P, F, U, NC, CY, NH, NR, RR, RT, HD, CL) ==
    {a \in [process : P, deliv_yr : DelivYears, fcstyr : F, popunit : U,
            newClearing : NC, clearingyr : CY, newHerb : NH, newRoads : NR,
            recRoads : RR, recRdType : RT, habDel : HD, cleanupON : CL] :
        /\ (a.newClearing = "#" => a.clearingyr = "#")
        /\ (a.recRoads = "#" => a.recRdType = "#")}

Opt(x) == {"#", x}

\* the state when main() is entered
InitWith(A, cells, polys, engs) ==
    /\ pc = "sec1"
    /\ argv \in A
    /\ R \in cells
    /\ fc \in polys \cup {{}}
    /\ (fc = {}) <=> (argv.clearingyr = "#")
    /\ TR = NoTR
    /\ ned = NoNed
    /\ sec = NoSec
    /\ eng \in engs
    /\ O = NoO
    /\ used = <<>>
    /\ ran = <<>>
    /\ pre = NoTR
    /\ log = <<>>
    /\ cd = cdIdle
    /\ bpt = bptIdle
    /\ lic = licIdle
    /\ den = denIdle

\* variant of the program order with the new roads burnt in before the line features
MainOrderRoadsFirst ==
    <<"sec1", "sec2", "sec3", "sec5", "sec4", "sec6", "sec7", "sec8", "sec9", "sec10",
      "sec11", "sec12", "sec13", "done">>

\* the sections of main() in program order
MainOrder == <<"sec1", "sec2", "sec3", "sec4", "sec5", "sec6", "sec7", "sec8", "sec9",
               "sec10", "sec11", "sec12", "sec13", "done">>

After(p) == MainOrder[(CHOOSE i \in 1..Len(MainOrder) : MainOrder[i] = p) + 1]

\* a scenario edit f ran: it read TR and left w
Edited(f, w) ==
    /\ pre' = TR
    /\ TR' = w
    /\ ran' = Append(ran, f)

\* variant of a skipped section that clips the base inputs again
SkippedReclip ==
    /\ TR' = clipData(R)
    /\ UNCHANGED <<ned, pre, ran>>

\* a skipped section: its function is not called
Skipped == UNCHANGED <<TR, ned, pre, ran>>

\* 1: prepData
Section1 ==
    /\ pc = "sec1"
    /\ pc' = After(pc)
    /\ ran' = Append(ran, "prepData")
    /\ UNCHANGED <<argv, R, fc, TR, ned, sec, eng, O, used, pre, log, cd, bpt, lic, den>>

\* 2: clipData
Section2 ==
    /\ pc = "sec2"
    /\ pc' = After(pc)
    /\ TR' = clipData(R)
    /\ ned' = clipNed(argv.process, ned)
    /\ ran' = Append(ran, "clipData")
    /\ UNCHANGED <<argv, R, fc, sec, eng, O, used, pre, log, cd, bpt, lic, den>>

\* polygon rows that can cover the cell (EXISTS = 0: no polygon over the cell)
NoRow == [AGE |-> 0, REGEN |-> 0, CC |-> 0, GRIDCODE |-> 0, EXISTS |-> 0]

ClearingInputs(clearingyr, fcst) ==
    {NoRow} \cup
    (IF clearingyr # "#"
     THEN UNION {ClearingRows(yr, fcst) : yr \in fc}
     ELSE {ClearingRowNoYear})

\* 3: optional vegetation clearings
Section3 ==
    /\ pc = "sec3"
    /\ pc' = After(pc)
    /\ IF argv.newClearing # "#"
       THEN \E row \in ClearingInputs(argv.clearingyr, argv.fcstyr) :
               /\ Edited("addClearing", addClearing(TR, R, row))
               /\ UNCHANGED ned
       ELSE Skipped
    /\ UNCHANGED <<argv, R, fc, sec, eng, O, used, log, cd, bpt, lic, den>>

\* 4: optional new line features as herb
Section4 ==
    /\ pc = "sec4"
    /\ pc' = After(pc)
    /\ IF argv.newHerb # "#"
       THEN \E inRoW \in BOOLEAN :
               /\ Edited("addLnHerb", addLnHerb(TR, inRoW))
               /\ ned' = addLnHerbNed(argv.process, ned)
       ELSE Skipped
    /\ UNCHANGED <<argv, R, fc, sec, eng, O, used, log, cd, bpt, lic, den>>

\* 5: optional new roads
Section5 ==
    /\ pc = "sec5"
    /\ pc' = After(pc)
    /\ IF argv.newRoads # "#"
       THEN \E inRoW \in BOOLEAN :
               /\ Edited("addRoads", addRoads(TR, inRoW))
               /\ ned' = addRoadsNed(argv.process, ned)
       ELSE Skipped
    /\ UNCHANGED <<argv, R, fc, sec, eng, O, used, log, cd, bpt, lic, den>>

\* 6: optional reclaimed roads (not for the RSF-only process)
Section6 ==
    /\ pc = "sec6"
    /\ pc' = After(pc)
    /\ IF argv.recRoads # "#" /\ (argv.process = 1 \/ argv.process = 3)
       THEN \E inRoW \in BOOLEAN, roadsRemain \in BOOLEAN :
            \E focal \in (IF rclmLandcover(argv.recRdType) = 99 /\ inRoW
                          THEN FocalResults ELSE {NoFocal}) :
               /\ Edited("rclmRoads", rclmRoads(TR, argv.recRdType, inRoW, focal))
               /\ ned' = rclmRoadsNed(ned, roadsRemain)
       ELSE Skipped
    /\ UNCHANGED <<argv, R, fc, sec, eng, O, used, log, cd, bpt, lic, den>>

\* variant of the test of section 7 that also ages a forecast of one year
forecastAgeFromOne(fcstyr, deliv_yr) == fcstyr # deliv_yr /\ (fcstyr - deliv_yr) >= 1

\* the two tests of section 7: the years differ and age = fcstyr - deliv_yr > 1
forecastAge(fcstyr, deliv_yr) == fcstyr # deliv_yr /\ (fcstyr - deliv_yr) > 1

\* 7: optional forecast age
Section7 ==
    /\ pc = "sec7"
    /\ pc' = After(pc)
    /\ IF forecastAge(argv.fcstyr, argv.deliv_yr)
       THEN /\ Edited("fAge", fAge(TR, argv.fcstyr - argv.deliv_yr))
            /\ UNCHANGED ned
       ELSE Skipped
    /\ UNCHANGED <<argv, R, fc, sec, eng, O, used, log, cd, bpt, lic, den>>

\* 8: secondary inputs
Section8 ==
    /\ pc = "sec8"
    /\ pc' = After(pc)
    /\ sec' = processLandcover(secInputs(TR, argv.process), TR, argv.process,
                                eng.numrecs, eng.dedge)
    /\ ran' = Append(ran, "secInputs")
    /\ UNCHANGED <<argv, R, fc, TR, ned, eng, O, used, pre, log, cd, bpt, lic, den>>

\* 9: RSF (with optional habitat deletions); an exception ends main() in its handler
Section9 ==
    /\ pc = "sec9"
    /\ IF argv.process = 1 \/ argv.process = 2
       THEN \E inDel \in (IF argv.habDel # "#" THEN BOOLEAN ELSE {FALSE}) :
               LET st == calRSF(O, argv.popunit, argv.habDel, inDel, eng.rsf_rng)
               IN /\ O' = st.o
                  /\ used' = st.used
                  /\ ran' = Append(ran, "calRSF")
                  /\ IF st.err # ""
                     THEN /\ pc' = "error"
                          /\ log' = log \o <<"PYTHON ERRORS in calRSF()",
                                             "PYTHON ERRORS in main()">>
                     ELSE /\ pc' = After(pc)
                          /\ UNCHANGED log
       ELSE /\ pc' = After(pc)
            /\ UNCHANGED <<O, used, ran, log>>
    /\ UNCHANGED <<argv, R, fc, TR, ned, sec, eng, pre, cd, bpt, lic, den>>

\* 10: risk
Section10 ==
    /\ pc = "sec10"
    /\ pc' = After(pc)
    /\ IF argv.process = 1 \/ argv.process = 3
       THEN /\ O' = calRisk(O, eng.risk_rscld)
            /\ ran' = Append(ran, "calRisk")
       ELSE UNCHANGED <<O, ran>>
    /\ UNCHANGED <<argv, R, fc, TR, ned, sec, eng, used, pre, log, cd, bpt, lic, den>>

\* 11: habitat states
Section11 ==
    /\ pc = "sec11"
    /\ pc' = After(pc)
    /\ IF argv.process = 1
       THEN /\ O' = calHState(O)
            /\ ran' = Append(ran, "calHState")
       ELSE UNCHANGED <<O, ran>>
    /\ UNCHANGED <<argv, R, fc, TR, ned, sec, eng, used, pre, log, cd, bpt, lic, den>>

\* 12: clean temporary outputs when cleanupON is set
Section12 ==
    /\ pc = "sec12"
    /\ pc' = After(pc)
    /\ IF argv.cleanupON = "true"
       THEN /\ TR' = NoTR
            /\ ned' = NoNed
            /\ sec' = NoSec
       ELSE UNCHANGED <<TR, ned, sec>>
    /\ UNCHANGED <<argv, R, fc, eng, O, used, ran, pre, log, cd, bpt, lic, den>>

lyrList == <<"Habitat State (current).lyr", "RSF Results.lyr", "Risk.lyr",
            "Risk Class.lyr">>

\* outputs a layer file of lyrList reads; the RSF group layer holds the RSF rasters
lyrOutputs == <<{"habState"}, {"rsf_class", "rsf_max", "rsf_s1", "rsf_s2", "rsf_s3"},
               {"risk"}, {"risk_class"}>>

\* variant of lyrRange whose RSF-only branch also takes the habitat state layer
lyrRangeWithHabState(process) ==
    IF process = 1 THEN <<1, 2, 3, 4>> ELSE IF process = 2 THEN <<1, 2>> ELSE <<3, 4>>

\* positions in lyrList of the layer files createLayerFiles writes (lyrRange + 1)
lyrRange(process) ==
    IF process = 1 THEN <<1, 2, 3, 4>> ELSE IF process = 2 THEN <<2>> ELSE <<3, 4>>

\* the loop of createLayerFiles: one layer file saved per position of lyrRange
createLayerFiles(process) ==
    [k \in 1..Len(lyrRange(process)) |-> lyrList[lyrRange(process)[k]]]

\* 13: output layer files
Section13 ==
    /\ pc = "sec13"
    /\ pc' = After(pc)
    /\ ran' = Append(ran, "createLayerFiles")
    /\ log' = log \o createLayerFiles(argv.process)
    /\ UNCHANGED <<argv, R, fc, TR, ned, sec, eng, O, used, pre, cd, bpt, lic, den>>

Next ==
    \/ Section1
    \/ Section2
    \/ Section3
    \/ Section4
    \/ Section5
    \/ Section6
    \/ Section7
    \/ Section8
    \/ Section9
    \/ Section10
    \/ Section11
    \/ Section12
    \/ Section13

(***************************************************************************)
(* Runs of main().                                                         *)
(***************************************************************************)
\* engine values of the score expressions used while the edits are explored
EngMain == {[rsf_rng |-> <<60000, 20000, 150000>>, risk_rscld |-> 550000,
             numrecs |-> AllPresent, dedge |-> 500]}

\* every subset of the optional edits, for each process
ArgsMain == Args({1, 2, 3}, {BaseYear, BaseYear + 12}, {"Yellowhead"},
                 Opt("clearings"), Opt("YEAR"), Opt("lines"), Opt("roads"),
                 Opt("reclaimed"), {"#", "Herb", "Match"}, Opt("deletions"), {"true"})

Init == InitWith(ArgsMain, {BaseCell(5, 1, 45, 30)}, {{1995}}, EngMain)

Spec == Init /\ [][Next]_vars

\* succession: clearings of several years and forecast aging over every base cell
ArgsSuccession == Args({1}, FcstYears, {"Yellowhead"}, Opt("clearings"), Opt("YEAR"),
                       {"#"}, Opt("roads"), {"#"}, {"#"}, {"#"}, {"true", "false"})

InitSuccession == InitWith(ArgsSuccession, BaseCells, {ClearingYears}, EngMain)

SpecSuccession == InitSuccession /\ [][Next]_vars

\* scoring: no edits; the scores the engine can yield at the cell
RSFSamples == {0, ScoreOne} \cup {RSFLadder[1].bp[i] : i \in 1..9}

RiskSamples == {0, ScoreOne} \cup {RiskRemap[i][2] : i \in 1..Len(RiskRemap)}

EngScores == {[rsf_rng |-> <<s1, s2, 0>>, risk_rscld |-> k, numrecs |-> AllPresent,
               dedge |-> 500] :
                 s1 \in RSFSamples, s2 \in {0, RSFLadder[2].bp[5]}, k \in RiskSamples}

ArgsScores == Args({1}, {BaseYear}, {"Yellowhead"}, {"#"}, {"#"}, {"#"}, {"#"}, {"#"},
                   {"#"}, Opt("deletions"), {"true"})

ArgsUnits == Args({1, 2, 3}, {BaseYear}, PopUnitArgs, {"#"}, {"#"}, {"#"}, {"#"}, {"#"},
                  {"#"}, {"#"}, {"true"})

InitScoring ==
    \/ InitWith(ArgsScores, {BaseCell(1, 0, 0, 80)}, {}, EngScores)
    \/ InitWith(ArgsUnits, {BaseCell(1, 0, 0, 80)}, {}, EngMain)

SpecScoring == InitScoring /\ [][Next]_vars

\* clearings: polygons cleared long ago, recently and after the forecast year, for
\* forecast years around the 50-year regen window and the first year a polygon exists
ClearingYearsEdge == {1905, 1980, 2010, 2017, BaseYear + 12}

ClearingFcstYears == {BaseYear, BaseYear + 11, BaseYear + 12, BaseYear + 13}

ArgsClearing == Args({1}, ClearingFcstYears, {"Yellowhead"}, Opt("clearings"),
                     Opt("YEAR"), {"#"}, {"#"}, {"#"}, {"#"}, {"#"}, {"true", "false"})

InitClearing == InitWith(ArgsClearing, BaseCells, {ClearingYearsEdge}, EngMain)

SpecClearing == InitClearing /\ [][Next]_vars

\* a cell of the raster extent that holds no data (outside the AOI polygon, or missing
\* from the base inputs)
NoDataCell == [lcov_gbz |-> NoData, regen_gbz |-> NoData, regenage |-> NoData,
               pctcon_gbz |-> NoData, cc_gbz |-> NoData]

EngNoData == {[rsf_rng |-> <<NoData, NoData, NoData>>, risk_rscld |-> NoData,
               numrecs |-> AllPresent, dedge |-> 500]}

\* reclaimed roads of every type, over a cell with data and a cell without
ArgsReclaim == Args({1, 3}, {BaseYear}, {"Yellowhead"}, {"#"}, {"#"}, {"#"},
                    Opt("roads"), Opt("reclaimed"), {"#", "Barren", "Herb", "Match"},
                    {"#"}, {"true", "false"})

InitReclaim ==
    \/ InitWith(ArgsReclaim, {BaseCell(5, 1, 45, 30), BaseCell(1, 0, 0, 80)}, {}, EngMain)
    \/ InitWith(ArgsReclaim, {NoDataCell}, {}, EngNoData)

SpecReclaim == InitReclaim /\ [][Next]_vars


\* forecast years on both sides of the deliverable year
ForecastYearsAround == {BaseYear - 1, BaseYear, BaseYear + 1, BaseYear + 2, BaseYear + 12}

ArgsForecast == Args({1}, ForecastYearsAround, {"Yellowhead"}, {"#"}, {"#"}, {"#"},
                     Opt("roads"), {"#"}, {"#"}, {"#"}, {"true", "false"})

InitForecast == InitWith(ArgsForecast, BaseCells, {}, EngMain)

SpecForecast == InitForecast /\ [][Next]_vars

\* runs of the three processes over extents where any of the six land-cover
\* classes may be absent (one record) and the cell on or away from the edge
EngEdges == {[rsf_rng |-> <<60000, 20000, 150000>>, risk_rscld |-> 550000,
              numrecs |-> n, dedge |-> d] :
                n \in [1..6 -> {1, 2}], d \in {0, 500}}

ArgsEdges == Args({1, 2, 3}, {BaseYear}, {"Yellowhead"}, {"#"}, {"#"}, {"#"}, {"#"},
                  Opt("reclaimed"), {"Herb"}, {"#"}, {"true"})

InitEdges == InitWith(ArgsEdges, {BaseCell(1, 0, 0, 80), BaseCell(5, 1, 45, 30)}, {}, EngEdges)

SpecEdges == InitEdges /\ [][Next]_vars
(***************************************************************************)
(* ChangeDetection.  Step 4 checks the properties of each pair of rasters, *)
(* step 5 aligns them, step 6 reports one layer per pass of its loop.      *)
(* A pair of aligned rasters is followed as a sequence of blocks           *)
(* <<reference value, scenario value, number of cells>>; a raster          *)
(* attribute table is a sequence of <<VALUE, COUNT>> rows in ascending     *)
(* VALUE.  The rasters followed hold the values 0..NumClasses (from -1 for *)
(* the habitat states).                                                    *)
(***************************************************************************)
CDNames == {"Habitat States", "Risk", "RSF Max", "RSF Season 1"}

HabStatesValuesCheck == <<-2, -1, 0, 1, 2>>

RiskValuesCheck == <<0, 1, 2, 3, 4, 5, 6, 7, 8, 9, 10>>

RsfValuesCheck == <<1, 2, 3, 4, 5, 6, 7, 8, 9, 10>>

ValuesCheck(name) == IF name = "Habitat States" THEN HabStatesValuesCheck
                     ELSE IF name = "Risk" THEN RiskValuesCheck
                     ELSE RsfValuesCheck

\* list.index(v)
IndexOf(list, v) == CHOOSE i \in 1..Len(list) : list[i] = v

\* sum(list)
RECURSIVE SumSeq(_)
SumSeq(s) == IF Len(s) = 0 THEN 0 ELSE s[1] + SumSeq(Tail(s))

\* values a followed raster of the layer can hold, ascending
LayerValues(name) ==
    IF name = "Habitat States" THEN [i \in 1..(NumClasses + 1) |-> i - 2]
    ELSE [i \in 1..(NumClasses + 1) |-> i - 1]

\* number of cells that changed value
Counts == {5, 40, 60}

\* number of cells that kept their value
SameCounts == {60, MaxCount}

\* the user's selection of layers to compare, in the order of the report
NameLists(names) ==
    {l \in UNION {[1..n -> names] : n \in 1..NumLayers} :
        \A i, j \in 1..Len(l) : i # j => l[i] # l[j]}

ValueSet(layer) == {LayerValues(layer)[i] : i \in 1..Len(LayerValues(layer))}

\* an aligned raster of layer a paired with an aligned raster of layer b: cells
\* that hold the same value in both rasters, cells that hold different values,
\* or both
RastersOf(a, b) ==
    LET same == {<<>>} \cup {<<<<v, v, c>>>> :
                                 v \in ValueSet(a) \cap ValueSet(b), c \in SameCounts}
        diff == {<<>>} \cup {<<<<p[1], p[2], c>>>> :
                                 p \in {q \in ValueSet(a) \X ValueSet(b) : q[1] # q[2]},
                                 c \in Counts}
    IN {s \o d : s \in same, d \in diff} \ {<<>>}

\* pairs of aligned rasters of one layer
Rasters(name) == RastersOf(name, name)

\* arcpy.ListRasters("*", "GRID"): the rasters of a folder in the order of their
\* names hab_state, risk, rsf_max, rsf_s1
GridOrder == <<"Habitat States", "Risk", "RSF Max", "RSF Season 1">>

ListRasters(folder) == SelectSeq(GridOrder, LAMBDA n : n \in folder)

\* selections whose order is the order of the raster names
SortedLists(names) ==
    {l \in NameLists(names) : l = ListRasters({l[i] : i \in 1..Len(l)})}

\* rows <<VALUE, COUNT>> of the values with cells
RECURSIVE RowsOf(_, _, _)
RowsOf(vals, cnt, i) ==
    IF i > Len(vals) THEN <<>>
    ELSE (IF cnt[i] = 0 THEN <<>> ELSE <<<<vals[i], cnt[i]>>>>) \o RowsOf(vals, cnt, i + 1)

\* attribute table of the reference (col = 1) or scenario (col = 2) raster
TableOf(name, cells, col) ==
    LET vals == LayerValues(name)
    IN RowsOf(vals, [i \in 1..Len(vals) |->
                 SumSeq([k \in 1..Len(cells) |->
                            IF cells[k][col] = vals[i] THEN cells[k][3] ELSE 0])], 1)

\* variant of the change raster without the sign flip of the other layers
ChangeValueRefMinusScnro(name, ref, scnro) ==
    LET changeRaster == ref - scnro
    IN IF changeRaster = 0 THEN NoData ELSE changeRaster

\* the change raster at a cell: (ref - scnro) for Risk, (ref - scnro) * -1 otherwise,
\* then SetNull(changeRaster, changeRaster, "VALUE = 0")
ChangeValue(name, ref, scnro) ==
    LET changeRaster == IF name = "Risk" THEN ref - scnro ELSE (ref - scnro) * (-1)
    IN IF changeRaster = 0 THEN NoData ELSE changeRaster

\* values a change raster can hold, ascending
ChangeDomain ==
    [i \in 1..(2 * NumClasses + 2) |-> IF i <= NumClasses + 1 THEN i - NumClasses - 2
                                       ELSE i - NumClasses - 1]

\* attribute table of the change raster
ChangeTable(name, cells) ==
    RowsOf(ChangeDomain,
           [i \in 1..Len(ChangeDomain) |->
               SumSeq([k \in 1..Len(cells) |->
                          IF ChangeValue(name, cells[k][1], cells[k][2]) = ChangeDomain[i]
                          THEN cells[k][3] ELSE 0])], 1)

\* variant of the area of a row that drops the digits after the second decimal
SumAreaTruncated(count) == (count * CellSize * CellSize) \div 10000

\* round(((COUNT * CellSize_x2) * 0.000001), 2), in hundredths of a km2
SumArea(count) == RoundDiv(count * CellSize * CellSize, 10000)

\* area of change detection: one area per row; [0] when the cursor yields no row
ChangeAreas(change) ==
    IF Len(change) = 0 THEN <<0>>
    ELSE [i \in 1..Len(change) |-> SumArea(change[i][2])]

\* the cursor loop over one raster: st = [areas, sum_area_0, err]; sum_area_0 is
\* NoData while the name is unbound; list.index raises ValueError for a VALUE that
\* is not in the list of the plot name
RECURSIVE AreaValues(_, _, _, _)
AreaValues(name, rows, i, st) ==
    IF i > Len(rows) THEN st
    ELSE LET value == rows[i][1]
             area  == SumArea(rows[i][2])
             known == \E k \in 1..Len(ValuesCheck(name)) : ValuesCheck(name)[k] = value
         IN IF name \in {"Habitat States", "Risk"}
            THEN IF ~known THEN [st EXCEPT !.err = "ValueError"]
                 ELSE AreaValues(name, rows, i + 1,
                          [st EXCEPT !.areas[IndexOf(ValuesCheck(name), value)] = area])
            ELSE IF value = 0
            THEN AreaValues(name, rows, i + 1, [st EXCEPT !.sum_area_0 = area])
            ELSE IF ~known THEN [st EXCEPT !.err = "ValueError"]
            ELSE IF value = 1
            THEN AreaValues(name, rows, i + 1,
                     [st EXCEPT !.areas[IndexOf(RsfValuesCheck, value)] =
                         IF IsNull(st.sum_area_0) THEN area ELSE area + st.sum_area_0])
            ELSE AreaValues(name, rows, i + 1,
                     [st EXCEPT !.areas[IndexOf(RsfValuesCheck, value)] = area])

ZeroAreas(name) == [i \in 1..Len(ValuesCheck(name)) |-> 0]

\* variant without the guard for two empty classes
pChangeUnguarded(refArea, scnroArea) ==
    IF refArea = 0 /\ scnroArea > 0 THEN [v |-> 1000, err |-> ""]
    ELSE IF refArea = 0 THEN [v |-> 0, err |-> "ZeroDivisionError"]
    ELSE [v |-> RoundDiv(1000 * (scnroArea - refArea), refArea), err |-> ""]

\* percent change of one class, in tenths of a percent; err when Python would raise
pChange(refArea, scnroArea) ==
    IF refArea = 0 /\ scnroArea = 0 THEN [v |-> 0, err |-> ""]
    ELSE IF refArea = 0 /\ scnroArea > 0 THEN [v |-> 1000, err |-> ""]
    ELSE IF refArea = 0 THEN [v |-> 0, err |-> "ZeroDivisionError"]
    ELSE [v |-> IF refArea > 0 THEN RoundDiv(1000 * (scnroArea - refArea), refArea)
                ELSE RoundDiv(1000 * (refArea - scnroArea), -refArea), err |-> ""]

\* the zip loop: classes before the first error are appended
pctChangeLoop(refAreaValues, scnroAreaValues) ==
    LET n    == Len(refAreaValues)
        p(i) == pChange(refAreaValues[i], scnroAreaValues[i])
        bad  == {i \in 1..n : p(i).err # ""}
        stop == IF bad = {} THEN n ELSE MinOf(bad) - 1
    IN [list |-> [i \in 1..stop |-> p(i).v],
        err  |-> IF bad = {} THEN "" ELSE p(MinOf(bad)).err]

\* total area and total percent area change: [totalArea, ChangeDetectionArea,
\* totalPctChange, err]; the totals shown are rounded to one decimal
totalPctChange(ChangeDetectionArea, scnroAreaValues) ==
    LET totalArea == SumSeq(scnroAreaValues)
        changed   == SumSeq(ChangeDetectionArea)
    IN IF changed = 0
       THEN [totalArea |-> totalArea, ChangeDetectionArea |-> 0, totalPctChange |-> 0,
             err |-> ""]
       ELSE IF totalArea = 0
       THEN [totalArea |-> totalArea, ChangeDetectionArea |-> changed,
             totalPctChange |-> 0, err |-> "ZeroDivisionError"]
       ELSE [totalArea |-> RoundDiv(totalArea, 10) * 10,
             ChangeDetectionArea |-> RoundDiv(changed, 10) * 10,
             totalPctChange |-> RoundDiv(1000 * changed, totalArea), err |-> ""]

\* cell sizes of a reference raster and its scenario raster
SquareCells == [refX |-> CellSize, refY |-> CellSize, scnroX |-> CellSize,
                scnroY |-> CellSize]

CellSizes == {20, CellSize}

SizePairs == [refX : {CellSize}, refY : CellSizes, scnroX : CellSizes,
              scnroY : CellSizes]

\* properties of a reference raster and its scenario raster: presence in the
\* folder, type, name and alias of the spatial reference, rows times columns, and
\* which ExtractByMask of step 5 the engine refuses, if any
SameGrids == [refExists |-> TRUE, scnroExists |-> TRUE, refType |-> "Projected",
              scnroType |-> "Projected", refSR |-> "NAD_1983_UTM_Zone_11N",
              scnroSR |-> "NAD_1983_UTM_Zone_11N", refAlias |-> "", scnroAlias |-> "",
              refRowCol |-> 4, scnroRowCol |-> 4, align |-> "ok"]

GridPairs ==
    {SameGrids,
     [SameGrids EXCEPT !.refExists = FALSE],
     [SameGrids EXCEPT !.scnroExists = FALSE],
     [SameGrids EXCEPT !.refType = "Geographic", !.refSR = "GCS_North_American_1983"],
     [SameGrids EXCEPT !.scnroType = "Geographic", !.scnroSR = "GCS_North_American_1983"],
     [SameGrids EXCEPT !.scnroSR = "NAD_1983_10TM_AEP_Forest"],
     [SameGrids EXCEPT !.scnroSR = "NAD_1983_10TM_AEP_Forest", !.scnroAlias = "10TM"],
     [SameGrids EXCEPT !.scnroRowCol = 2],
     [SameGrids EXCEPT !.refRowCol = 2],
     [SameGrids EXCEPT !.align = "ref"],
     [SameGrids EXCEPT !.align = "scnro"]}

\* the state when step 2 starts: the selected layers and the properties of their
\* rasters
CDInitWith(lists, sizes, grids) ==
    /\ pc = "idle"
    /\ argv \in Args({1}, {BaseYear}, {"Yellowhead"}, {"#"}, {"#"}, {"#"}, {"#"}, {"#"},
                     {"#"}, {"#"}, {"true"})
    /\ R = BaseCell(1, 0, 0, 80)
    /\ fc = {}
    /\ TR = NoTR
    /\ ned = NoNed
    /\ sec = NoSec
    /\ eng \in EngMain
    /\ O = NoO
    /\ used = <<>>
    /\ ran = <<>>
    /\ pre = NoTR
    /\ log = <<>>
    /\ \E l \in lists :
       \E s \in [1..Len(l) -> sizes] :
       \E g \in [1..Len(l) -> grids] :
          cd = [cdIdle EXCEPT !.pc = "step2", !.names = l, !.sizes = s, !.props = g]
    /\ bpt = bptIdle
    /\ lic = licIdle
    /\ den = denIdle

CDInit == CDInitWith(SortedLists(CDNames), {SquareCells}, {SameGrids})

hsVars == <<pc, argv, R, fc, TR, ned, sec, eng, O, used, ran, pre, log>>

\* step 2: every selected raster must be in the reference folder
CDReadRef ==
    /\ cd.pc = "step2"
    /\ IF \E k \in 1..Len(cd.names) : ~cd.props[k].refExists
       THEN cd' = [cd EXCEPT !.pc = "exit", !.errors = @ + 1]
       ELSE cd' = [cd EXCEPT !.pc = "step3", !.refRasters = cd.names]
    /\ UNCHANGED <<hsVars, bpt, lic, den>>

\* step 3: every selected raster must be in the scenario folder
CDReadScnro ==
    /\ cd.pc = "step3"
    /\ IF \E k \in 1..Len(cd.names) : ~cd.props[k].scnroExists
       THEN cd' = [cd EXCEPT !.pc = "exit", !.errors = @ + 1]
       ELSE cd' = [cd EXCEPT !.pc = "step4", !.scnroRasters = cd.names]
    /\ UNCHANGED <<hsVars, bpt, lic, den>>

\* refCRS != scnroCRS, both read from spatialReference.alias
SameCRS(g) == g.refAlias = g.scnroAlias

\* the raster with fewer cells is the mask, the reference when they have as many
MaskOf(g) == IF g.scnroRowCol < g.refRowCol THEN "scnro" ELSE "ref"

\* step 4, one pass of its loop: both rasters projected, same coordinate system,
\* same cell size; then the mask of the pair is chosen
CDCheck ==
    /\ cd.pc = "step4"
    /\ LET s == cd.sizes[cd.checked + 1]
           g == cd.props[cd.checked + 1]
           refCellSizeTotal   == s.refX + s.refY
           scnroCellSizeTotal == s.scnroX + s.scnroY
       IN IF \/ g.refType # "Projected"
             \/ g.scnroType # "Projected"
             \/ ~SameCRS(g)
             \/ refCellSizeTotal # scnroCellSizeTotal
          THEN cd' = [cd EXCEPT !.pc = "exit"]
          ELSE cd' = [cd EXCEPT !.checked = @ + 1,
                                !.maskRasters = Append(@, MaskOf(g)),
                                !.pc = IF cd.checked + 1 = Len(cd.names) THEN "step5"
                                       ELSE "step4"]
    /\ UNCHANGED <<hsVars, bpt, lic, den>>

\* where step 5 goes after a pass: arcpy.ExecuteError is reported and the loop goes on
AfterAlign(ok, last) == IF last THEN "layer" ELSE "step5"

\* step 5, one pass of its loop: the aligned reference raster, then the aligned
\* scenario raster, are saved under the name of the layer; a refused ExtractByMask
\* leaves the rest of the pass undone
CDAlign ==
    /\ cd.pc = "step5"
    /\ LET k    == cd.aligned + 1
           g    == cd.props[k]
           name == cd.names[k]
       IN cd' = [cd EXCEPT !.aligned = k,
                           !.refAligned = IF g.align = "ref" THEN @ ELSE @ \cup {name},
                           !.scnroAligned = IF g.align = "ok" THEN @ \cup {name} ELSE @,
                           !.errors = IF g.align = "ok" THEN @ ELSE @ + 1,
                           !.pc = AfterAlign(g.align = "ok", k = Len(cd.names))]
    /\ UNCHANGED <<hsVars, bpt, lic, den>>

\* length of zip(namesForPlot, refRasterList, scnroRasterList)
ZipLen == MinOf({Len(cd.names), Cardinality(cd.refAligned), Cardinality(cd.scnroAligned)})

\* step 6 loop header: the next (name, ref, scnro) of the zip, its change raster and
\* the area of change detection
CDLayer ==
    /\ cd.pc = "layer"
    /\ IF cd.iter < ZipLen
       THEN LET name  == cd.names[cd.iter + 1]
                ref   == ListRasters(cd.refAligned)[cd.iter + 1]
                scnro == ListRasters(cd.scnroAligned)[cd.iter + 1]
            IN \E cells \in RastersOf(ref, scnro) :
                  LET change == ChangeTable(name, cells)
                  IN cd' = [cd EXCEPT !.pc = "ref", !.name = name, !.iter = @ + 1,
                                      !.refLayer = ref, !.scnroLayer = scnro,
                                      !.cells = cells,
                                      !.ref = TableOf(ref, cells, 1),
                                      !.scnro = TableOf(scnro, cells, 2),
                                      !.change = change,
                                      !.written = @ + 1,
                                      !.ChangeDetectionArea = ChangeAreas(change)]
       ELSE cd' = [cd EXCEPT !.pc = "done", !.name = "", !.refLayer = "",
                             !.scnroLayer = ""]
    /\ UNCHANGED <<hsVars, bpt, lic, den>>

\* reference VALUE area from COUNT
CDRefAreas ==
    /\ cd.pc = "ref"
    /\ LET st == AreaValues(cd.name, cd.ref, 1,
                            [areas |-> ZeroAreas(cd.name),
                             sum_area_0 |-> cd.ref_sum_area_0, err |-> ""])
       IN cd' = [cd EXCEPT !.pc = IF st.err = "" THEN "scnro" ELSE "error",
                           !.refAreaValues = st.areas,
                           !.ref_sum_area_0 = st.sum_area_0, !.err = st.err,
                           !.errAt = IF st.err = "" THEN "" ELSE "refAreaValues"]
    /\ UNCHANGED <<hsVars, bpt, lic, den>>

\* scenario VALUE area from COUNT
CDScnroAreas ==
    /\ cd.pc = "scnro"
    /\ LET st == AreaValues(cd.name, cd.scnro, 1,
                            [areas |-> ZeroAreas(cd.name),
                             sum_area_0 |-> cd.scnro_sum_area_0, err |-> ""])
       IN cd' = [cd EXCEPT !.pc = IF st.err = "" THEN "pct" ELSE "error",
                           !.scnroAreaValues = st.areas,
                           !.scnro_sum_area_0 = st.sum_area_0, !.err = st.err,
                           !.errAt = IF st.err = "" THEN "" ELSE "scnroAreaValues"]
    /\ UNCHANGED <<hsVars, bpt, lic, den>>

\* percent change between reference and scenario
CDPctChange ==
    /\ cd.pc = "pct"
    /\ LET r == pctChangeLoop(cd.refAreaValues, cd.scnroAreaValues)
       IN cd' = [cd EXCEPT !.pc = IF r.err = "" THEN "total" ELSE "error",
                           !.pctChange = r.list, !.err = r.err,
                           !.errAt = IF r.err = "" THEN "" ELSE "pctChange"]
    /\ UNCHANGED <<hsVars, bpt, lic, den>>

\* total area and total percent area change
CDTotals ==
    /\ cd.pc = "total"
    /\ LET r == totalPctChange(cd.ChangeDetectionArea, cd.scnroAreaValues)
       IN cd' = [cd EXCEPT !.pc = IF r.err = "" THEN "plot" ELSE "error",
                           !.totalArea = r.totalArea,
                           !.changedArea = r.ChangeDetectionArea,
                           !.totalPctChange = r.totalPctChange,
                           !.err = r.err,
                           !.errAt = IF r.err = "" THEN "" ELSE "totalPctChange"]
    /\ UNCHANGED <<hsVars, bpt, lic, den>>

\* plot and export; the lists are rebuilt by the next pass
CDPlot ==
    /\ cd.pc = "plot"
    /\ cd' = [cd EXCEPT !.pc = "layer", !.cells = <<>>, !.ref = <<>>, !.scnro = <<>>,
                        !.change = <<>>, !.ChangeDetectionArea = <<>>,
                        !.refAreaValues = <<>>, !.scnroAreaValues = <<>>,
                        !.pctChange = <<>>, !.totalArea = 0, !.changedArea = 0,
                        !.totalPctChange = 0, !.plots = @ + 1]
    /\ UNCHANGED <<hsVars, bpt, lic, den>>

CDNext ==
    \/ CDReadRef
    \/ CDReadScnro
    \/ CDCheck
    \/ CDAlign
    \/ CDLayer
    \/ CDRefAreas
    \/ CDScnroAreas
    \/ CDPctChange
    \/ CDTotals
    \/ CDPlot

SpecCD == CDInit /\ [][CDNext]_vars

\* pairs of rasters whose cell sizes can differ
CDInitSizes == CDInitWith(NameLists({"Risk", "Habitat States"}), SizePairs, {SameGrids})

SpecCDSizes == CDInitSizes /\ [][CDNext]_vars

\* selections in any order over pairs of rasters of every kind
CDInitGrids == CDInitWith(NameLists({"Habitat States", "Risk"}), {SquareCells}, GridPairs)

SpecCDGrids == CDInitGrids /\ [][CDNext]_vars

(***************************************************************************)
(* Breakpoint tables: a table of the code, a score and its class.          *)
(***************************************************************************)
\* every RemapRange over [0, 1] in the code
BPTables ==
    [t \in {"Risk", "Denning"} |-> IF t = "Risk" THEN RiskRemap ELSE DenningRemap]

BPRemap(t, i) == IF t = "RSF" THEN RSFRemap(RSFLadder[i].bp) ELSE BPTables[t]

\* scores at, just below and just above every bound of a table
BPValues(remap) ==
    UNION {{remap[i][1], remap[i][2], remap[i][2] - 1, remap[i][1] + 1} :
              i \in 1..Len(remap)}

BPInit ==
    /\ pc = "idle"
    /\ argv \in Args({1}, {BaseYear}, {"Yellowhead"}, {"#"}, {"#"}, {"#"}, {"#"}, {"#"},
                     {"#"}, {"#"}, {"true"})
    /\ R = BaseCell(1, 0, 0, 80)
    /\ fc = {}
    /\ TR = NoTR
    /\ ned = NoNed
    /\ sec = NoSec
    /\ eng \in EngMain
    /\ O = NoO
    /\ used = <<>>
    /\ ran = <<>>
    /\ pre = NoTR
    /\ log = <<>>
    /\ cd = cdIdle
    /\ bpt = bptIdle
    /\ lic = licIdle
    /\ den = denIdle

\* the table of a (population unit, season) branch, of calRisk or of DenningRSF
BPSelect ==
    /\ bpt.pc = "idle"
    /\ \E t \in {"RSF", "Risk", "Denning"} :
       \E i \in (IF t = "RSF" THEN 1..Len(RSFLadder) ELSE {0}) :
       \E v \in BPValues(BPRemap(t, i)) :
          bpt' = [pc |-> "selected", table |-> t, branch |-> i,
                  remap |-> BPRemap(t, i), value |-> v, class |-> NoData]
    /\ UNCHANGED <<hsVars, cd, lic, den>>

\* Reclassify(.., RemapRange(..), "DATA")
BPReclassify ==
    /\ bpt.pc = "selected"
    /\ bpt' = [bpt EXCEPT !.pc = "classified",
                          !.class = ReclassifyRange(bpt.value, bpt.remap)]
    /\ UNCHANGED <<hsVars, cd, lic, den>>

BPNext ==
    \/ BPSelect
    \/ BPReclassify

SpecBP == BPInit /\ [][BPNext]_vars


(***************************************************************************)
(* CheckLicenses.py, and the start of each tool up to its license test.    *)
(***************************************************************************)
\* what arcpy.CheckProduct, arcpy.CheckExtension and arcpy.CheckOutExtension report
ProductStatus == {"Available", "AlreadyInitialized", "Unavailable", "NotLicensed", "Failed"}
ExtensionStatus == {"Available", "Unavailable", "NotLicensed", "Failed"}

\* CheckOutExtension after CheckExtension reported s: a license that is not held
\* stays so, one that was in use may have been returned in between
CheckOutStatus(s) ==
    IF s = "Available" THEN {"CheckedOut"}
    ELSE IF s = "NotLicensed" THEN {"NotLicensed"}
    ELSE {s, "CheckedOut"}

Returned(go, msg, product, ext) ==
    [go |-> go, msg |-> msg, product |-> product, ext |-> ext, raised |-> ""]

Raised(exc) == [go |-> "", msg |-> "", product |-> "", ext |-> "", raised |-> exc]

\* CheckArcInfo and CheckArcView
CheckProductLevel(name, status) ==
    IF status \in {"Available", "AlreadyInitialized"}
    THEN Returned("yes", "available", name, "")
    ELSE IF status = "NotLicensed" THEN Returned("no", "not found", "", "")
    ELSE Returned("no", "unavailable", "", "")

CheckArcInfo(status) == CheckProductLevel("ArcInfo", status)

CheckArcView(status) == CheckProductLevel("ArcView", status)

\* the elif of CheckArcEditor reads gp, a name the module does not define
CheckArcEditor(status) ==
    IF status \in {"Available", "AlreadyInitialized"}
    THEN Returned("yes", "available", "ArcEditor", "")
    ELSE Raised("NameError")

\* CheckSpatialExt and Check3DExt: the elif asks CheckOutExtension, not CheckExtension
CheckExtensionLevel(name, status, checkout) ==
    IF status = "Available" THEN Returned("yes", "available", "", name)
    ELSE IF checkout = "NotLicensed" THEN Returned("no", "not found", "", "")
    ELSE Returned("no", "unavailable", "", IF checkout = "CheckedOut" THEN name ELSE "")

CheckSpatialExt(status, checkout) == CheckExtensionLevel("spatial", status, checkout)

Check3DExt(status, checkout) == CheckExtensionLevel("3D", status, checkout)

LicenseFunctions ==
    {"CheckArcInfo", "CheckArcEditor", "CheckArcView", "CheckSpatialExt", "Check3DExt"}

CheckLicense(fn, status, checkout) ==
    IF fn = "CheckArcInfo" THEN CheckArcInfo(status)
    ELSE IF fn = "CheckArcEditor" THEN CheckArcEditor(status)
    ELSE IF fn = "CheckArcView" THEN CheckArcView(status)
    ELSE IF fn = "CheckSpatialExt" THEN CheckSpatialExt(status, checkout)
    ELSE Check3DExt(status, checkout)

Tools == {"HabitatStates", "ChangeDetection", "DenningRSF"}

\* what a tool does when its module is loaded, before the license test; the
\* results folder is absent, empty or in use
Preamble(tool, folder) ==
    IF tool = "ChangeDetection" THEN <<>>
    ELSE (IF tool = "HabitatStates" THEN <<"Delete in_memory">> ELSE <<>>)
         \o (IF folder = "absent" THEN <<"mkdir OP">> ELSE <<>>)
         \o (IF folder = "used" THEN <<>> ELSE <<"open tool_log.txt">>)

\* the first operations behind the license test
Processing(tool) ==
    IF tool = "ChangeDetection"
    THEN <<"rmtree Scratch", "CreateFolder PctPlots", "CreateFolder ChangeDetection",
           "CreateFolder Scratch">>
    ELSE <<"chktmpOP", "section 1">>

\* variant of the license test that goes on with either license
LicensedEither(info, spatial) == info = "yes" \/ spatial = "yes"

\* CheckArcInfo() == "yes" and CheckSpatialExt() == "yes"
Licensed(info, spatial) == info = "yes" /\ spatial = "yes"

LicInit ==
    /\ pc = "idle"
    /\ argv \in Args({1}, {BaseYear}, {"Yellowhead"}, {"#"}, {"#"}, {"#"}, {"#"}, {"#"},
                     {"#"}, {"#"}, {"true"})
    /\ R = BaseCell(1, 0, 0, 80)
    /\ fc = {}
    /\ TR = NoTR
    /\ ned = NoNed
    /\ sec = NoSec
    /\ eng \in EngMain
    /\ O = NoO
    /\ used = <<>>
    /\ ran = <<>>
    /\ pre = NoTR
    /\ log = <<>>
    /\ cd = cdIdle
    /\ bpt = bptIdle
    /\ \E t \in Tools \cup {"CheckLicenses"} :
       \E f \in (IF t \in {"HabitatStates", "DenningRSF"}
                 THEN {"absent", "empty", "used"} ELSE {"absent"}) :
          lic = [licIdle EXCEPT !.pc = "start", !.tool = t, !.folder = f]
    /\ den = denIdle

\* a call of one of the five functions of CheckLicenses.py
LicCall ==
    /\ lic.pc = "start"
    /\ lic.tool = "CheckLicenses"
    /\ \E fn \in LicenseFunctions :
       \E s \in (IF fn \in {"CheckSpatialExt", "Check3DExt"}
                 THEN ExtensionStatus ELSE ProductStatus) :
       \E c \in CheckOutStatus(s) :
          LET r == CheckLicense(fn, s, c)
          IN lic' = [lic EXCEPT !.pc = "returned", !.fn = fn, !.status = s,
                                !.checkout = c, !.go = r.go, !.msg = r.msg,
                                !.product = r.product, !.ext = r.ext,
                                !.raised = r.raised]
    /\ UNCHANGED <<hsVars, cd, bpt, den>>

\* the module-level statements of a tool: HabitatStates and DenningRSF make the
\* results folder (or exit when it is in use) and open the log
LicLoad ==
    /\ lic.pc = "start"
    /\ lic.tool \in Tools
    /\ lic' = [lic EXCEPT !.pc = IF lic.tool # "ChangeDetection" /\ lic.folder = "used"
                                 THEN "exit" ELSE "CheckArcInfo",
                          !.made = Preamble(lic.tool, lic.folder)]
    /\ UNCHANGED <<hsVars, cd, bpt, den>>

LicCheckArcInfo ==
    /\ lic.pc = "CheckArcInfo"
    /\ \E s \in ProductStatus :
          LET r == CheckArcInfo(s)
          IN lic' = [lic EXCEPT !.pc = IF r.go = "yes" THEN "CheckSpatialExt" ELSE "test",
                                !.fn = "CheckArcInfo", !.status = s, !.go = r.go,
                                !.msg = r.msg, !.product = r.product, !.info = r.go]
    /\ UNCHANGED <<hsVars, cd, bpt, den>>

\* reached only when CheckArcInfo() returned "yes" (the and is short-circuit)
LicCheckSpatialExt ==
    /\ lic.pc = "CheckSpatialExt"
    /\ \E s \in ExtensionStatus :
       \E c \in CheckOutStatus(s) :
          LET r == CheckSpatialExt(s, c)
          IN lic' = [lic EXCEPT !.pc = "test", !.fn = "CheckSpatialExt", !.status = s,
                                !.checkout = c, !.go = r.go, !.msg = r.msg,
                                !.ext = r.ext, !.spatial = r.go]
    /\ UNCHANGED <<hsVars, cd, bpt, den>>

\* the license test: the tool goes on, or ChangeDetection warns and exits and the
\* other two log the message and check the extension in (finally of main)
LicTest ==
    /\ lic.pc = "test"
    /\ IF Licensed(lic.info, lic.spatial)
       THEN lic' = [lic EXCEPT !.pc = "run", !.made = lic.made \o Processing(lic.tool)]
       ELSE lic' = [lic EXCEPT !.pc = "aborted",
                               !.msg = "license levels",
                               !.ext = IF lic.tool = "ChangeDetection" THEN lic.ext ELSE ""]
    /\ UNCHANGED <<hsVars, cd, bpt, den>>

LicNext ==
    \/ LicCall
    \/ LicLoad
    \/ LicCheckArcInfo
    \/ LicCheckSpatialExt
    \/ LicTest

SpecLicenses == LicInit /\ [][LicNext]_vars

(***************************************************************************)
(* main() of DenningRSF at one cell of the analysis extent.                *)
(***************************************************************************)
DenOrder == <<"sec1", "sec2", "sec3", "sec4", "sec5", "sec6", "sec7", "done">>

DenAfter(p) == DenOrder[(CHOOSE i \in 1..Len(DenOrder) : DenOrder[i] = p) + 1]

\* variant of 3.4 / 5.4 that keeps the burnt value instead of swapping it
denChangeNoSwap(inside) == Burn(inside, 1)

\* 3.3-3.4 and 5.3-5.4: GRIDCODE_1 is 1 inside the footprint and 0 elsewhere in
\* the AOI; TR.change swaps the two values
denChange(inside) == ReclassifyValue(Burn(inside, 1), <<<<0, 1>>, <<1, 0>>>>)

\* 3.5 and 5.5: TR.maskupd = TR.change * TR.mask, copied over TR.mask
denMaskUpd(inside, mask) == Times(denChange(inside), mask)

\* 2.1: TR.mask = TR.bndgrid * R.mask_den
denClipMask(mask_den) == Times(1, mask_den)

\* 6.2: the seven classes of the rescaled RSF
denRsfRng(rsf_rscld) == ReclassifyRange(rsf_rscld, DenningRemap)

\* 6.3: O.denRSF = TR.rsf_rng * TR.mask
denRSF(rsf_rng, mask) == Times(rsf_rng, mask)

\* rescaled scores the engine can yield at the cell
DenSamples == BPValues(DenningRemap)

DenInit ==
    /\ pc = "idle"
    /\ argv \in Args({1}, {BaseYear}, {"Yellowhead"}, {"#"}, {"#"}, {"#"}, {"#"}, {"#"},
                     {"#"}, {"#"}, {"true"})
    /\ R = BaseCell(1, 0, 0, 80)
    /\ fc = {}
    /\ TR = NoTR
    /\ ned = NoNed
    /\ sec = NoSec
    /\ eng \in EngMain
    /\ O = NoO
    /\ used = <<>>
    /\ ran = <<>>
    /\ pre = NoTR
    /\ log = <<>>
    /\ cd = cdIdle
    /\ bpt = bptIdle
    /\ lic = licIdle
    /\ \E nr \in Opt("roads"), rp \in {"true", "false"}, dr \in Opt("decommissioned"),
          hd \in Opt("removals"), cl \in {"true", "false"}, m \in {0, 1} :
          den = [denIdle EXCEPT !.pc = "sec1", !.newRoads = nr, !.rplcRoads = rp,
                                !.decRoads = dr, !.habDel = hd, !.cleanupON = cl,
                                !.mask_den = m]

\* a function of main() raised: it logs and re-raises, main() logs the error and
\* leaves through finally; nothing else runs
DenFailed(f) ==
    den' = [den EXCEPT !.pc = "failed", !.ran = Append(den.ran, f),
                       !.err = "ExecuteError", !.errors = den.errors + 2]

DenStep(f, d) == [d EXCEPT !.pc = DenAfter(den.pc), !.ran = Append(den.ran, f)]

DenSkip == den' = [den EXCEPT !.pc = DenAfter(den.pc)]

\* 1: prepData
DenSection1 ==
    /\ den.pc = "sec1"
    /\ \E ok \in BOOLEAN :
          IF ok THEN den' = DenStep("prepData", den) ELSE DenFailed("prepData")
    /\ UNCHANGED <<hsVars, cd, bpt, lic>>

\* 2: clipData
DenSection2 ==
    /\ den.pc = "sec2"
    /\ \E ok \in BOOLEAN :
          IF ok
          THEN den' = DenStep("clipData", [den EXCEPT !.mask = denClipMask(den.mask_den)])
          ELSE DenFailed("clipData")
    /\ UNCHANGED <<hsVars, cd, bpt, lic>>

\* 3: optional new roads
DenSection3 ==
    /\ den.pc = "sec3"
    /\ IF den.newRoads # "#"
       THEN \E ok \in BOOLEAN, inside \in BOOLEAN :
               IF ok
               THEN den' = DenStep("addRoads",
                                   [den EXCEPT !.before = den.mask, !.inside = inside,
                                               !.mask = denMaskUpd(inside, den.mask)])
               ELSE DenFailed("addRoads")
       ELSE DenSkip
    /\ UNCHANGED <<hsVars, cd, bpt, lic>>

\* 4: optional decommissioned roads (road layer and road density only)
DenSection4 ==
    /\ den.pc = "sec4"
    /\ IF den.decRoads # "#"
       THEN \E ok \in BOOLEAN, inside \in BOOLEAN :
               IF ok
               THEN den' = DenStep("dcmRoads",
                                   [den EXCEPT !.before = den.mask, !.inside = inside])
               ELSE DenFailed("dcmRoads")
       ELSE DenSkip
    /\ UNCHANGED <<hsVars, cd, bpt, lic>>

\* 5: optional removal of other anthropogenic features
DenSection5 ==
    /\ den.pc = "sec5"
    /\ IF den.habDel # "#"
       THEN \E ok \in BOOLEAN, inside \in BOOLEAN :
               IF ok
               THEN den' = DenStep("rmvHab",
                                   [den EXCEPT !.before = den.mask, !.inside = inside,
                                               !.mask = denMaskUpd(inside, den.mask)])
               ELSE DenFailed("rmvHab")
       ELSE DenSkip
    /\ UNCHANGED <<hsVars, cd, bpt, lic>>

\* 6: calRSF
DenSection6 ==
    /\ den.pc = "sec6"
    /\ \E ok \in BOOLEAN, v \in DenSamples :
          IF ok
          THEN den' = DenStep("calRSF",
                              [den EXCEPT !.rsf_rscld = v, !.rsf_rng = denRsfRng(v),
                                          !.denRSF = denRSF(denRsfRng(v), den.mask)])
          ELSE DenFailed("calRSF")
    /\ UNCHANGED <<hsVars, cd, bpt, lic>>

\* 7: the temporary rasters are deleted unless the user keeps them
DenSection7 ==
    /\ den.pc = "sec7"
    /\ IF den.cleanupON = "true"
       THEN \E ok \in BOOLEAN :
               IF ok
               THEN den' = DenStep("del_temp_outputs",
                                   [den EXCEPT !.mask = NoData, !.before = NoData,
                                               !.rsf_rscld = NoData, !.rsf_rng = NoData])
               ELSE DenFailed("del_temp_outputs")
       ELSE DenSkip
    /\ UNCHANGED <<hsVars, cd, bpt, lic>>

DenNext ==
    \/ DenSection1
    \/ DenSection2
    \/ DenSection3
    \/ DenSection4
    \/ DenSection5
    \/ DenSection6
    \/ DenSection7

SpecDenning == DenInit /\ [][DenNext]_vars
(***************************************************************************)
(* Properties.                                                             *)
(***************************************************************************)
Ran(f) == \E i \in 1..Len(ran) : ran[i] = f

LastRan(f) == Len(ran) > 0 /\ ran[Len(ran)] = f

YearsForward == argv.fcstyr - argv.deliv_yr

EditOrder == <<"addClearing", "addLnHerb", "addRoads", "rclmRoads", "fAge">>

Edits == {EditOrder[i] : i \in 1..Len(EditOrder)}

EditPosition(f) == CHOOSE i \in 1..Len(EditOrder) : EditOrder[i] = f

EditsInOrder(r) ==
    \A i, j \in 1..Len(r) :
        (i < j /\ r[i] \in Edits /\ r[j] \in Edits) => EditPosition(r[i]) < EditPosition(r[j])

NoEditAfterReader(r) ==
    \A i, j \in 1..Len(r) :
        (i < j /\ r[i] \in {"secInputs", "calRSF", "calRisk"}) => r[j] \notin Edits

WorkingRasters(w) == <<w.lcov, w.rgn, w.cc_rgn, w.cc_trd, w.pctcon>>

\* C1: the edits that run, run in the order addClearing, addLnHerb, addRoads,
\* rclmRoads, fAge; an edit reads the working rasters as the previous edit left them
\* (between two edits nothing writes them: only clipData, an edit, or the final
\* clean-up changes a working raster); no edit runs after secInputs, calRSF or calRisk.
C1_EditOrder ==
    [][/\ EditsInOrder(ran')
       /\ NoEditAfterReader(ran')
       /\ (\E e \in Edits : ran' = Append(ran, e)) => pre' = TR
       /\ (WorkingRasters(TR') # WorkingRasters(TR)) =>
              \/ \E e \in Edits \cup {"clipData"} : ran' = Append(ran, e)
              \/ (pc = "sec12" /\ Ran("secInputs"))]_vars

C1_Witness ==
    /\ pc = "done"
    /\ ran = <<"prepData", "clipData", "addClearing", "addLnHerb", "addRoads",
               "rclmRoads", "fAge", "secInputs", "calRSF", "calRisk", "calHState",
               "createLayerFiles">>

\* C2: for per-class areas r >= 0, s >= 0 the percent change is 0 when r = s = 0,
\* 100 when r = 0 < s, and otherwise (s - r) / r * 100 rounded to one decimal (the
\* nearest tenth); the loop never divides by zero.
C2_PercentChange ==
    /\ cd.errAt # "pctChange"
    /\ cd.pc = "plot" =>
          /\ Len(cd.pctChange) = Len(cd.refAreaValues)
          /\ \A i \in 1..Len(cd.refAreaValues) :
                LET r == cd.refAreaValues[i]
                    s == cd.scnroAreaValues[i]
                    p == cd.pctChange[i]
                IN /\ r >= 0 /\ s >= 0
                   /\ (r = 0 /\ s = 0) => p = 0
                   /\ (r = 0 /\ s > 0) => p = 1000
                   /\ r > 0 => 2 * Abs((p * r) - (1000 * (s - r))) <= r

C2_Witness ==
    /\ cd.pc = "plot"
    /\ \E i, j, k \in 1..Len(cd.refAreaValues) :
          /\ cd.refAreaValues[i] = 0 /\ cd.scnroAreaValues[i] = 0 /\ cd.pctChange[i] = 0
          /\ cd.refAreaValues[j] = 0 /\ cd.scnroAreaValues[j] > 0
          /\ cd.pctChange[j] = 1000
          /\ cd.refAreaValues[k] = 95 /\ cd.scnroAreaValues[k] = 90
          /\ cd.pctChange[k] = -53

\* C3: the habitat state is risk_class * rsf_class and lies in the value domain
\* -2..2 that ChangeDetection indexes, for every rsf_max class 0..10 and risk class
\* 0..10.
C3_HabitatState ==
    Ran("calHState") =>
        /\ O.rsf_max \in 0..10
        /\ O.risk \in 0..10
        /\ O.habState = O.risk_class * O.rsf_class
        /\ \E i \in 1..Len(HabStatesValuesCheck) : HabStatesValuesCheck[i] = O.habState
        /\ O.habState \in -2..2

C3_Witness ==
    /\ Ran("calHState")
    /\ O.rsf_max = 10
    /\ O.risk = 10
    /\ O.habState = -2

\* C4: classes 1..4 of rsf_max become tier 0, 5..7 tier 1 and 8..10 tier 2, so the
\* tier never decreases as the class increases.
C4_ThreeTier ==
    /\ \A a, b \in 1..10 : a < b => classifyToThreeTier(a) <= classifyToThreeTier(b)
    /\ (Ran("calRSF") /\ pc # "error") =>
          /\ O.rsf_max \in 0..10
          /\ O.rsf_max \in 1..4 => O.rsf_class = 0
          /\ O.rsf_max \in 5..7 => O.rsf_class = 1
          /\ O.rsf_max \in 8..10 => O.rsf_class = 2

C4_Witness ==
    /\ Ran("calRSF")
    /\ O.rsf_max = 7
    /\ O.rsf_class = 1

\* C5: risk classes 0..5 become +1 and 6..10 become -1; every class 0..10 lies in
\* exactly one of the two ranges, so risk_class is +1 or -1.
C5_SinkSource ==
    /\ \A k \in 0..10 : Cardinality(Matching(k, RiskClassRemap)) = 1
    /\ Ran("calRisk") =>
          /\ O.risk \in 0..10
          /\ O.risk \in 0..5 => O.risk_class = 1
          /\ O.risk \in 6..10 => O.risk_class = -1
          /\ O.risk_class \in {1, -1}

C5_Witness ==
    /\ Ran("calRisk")
    /\ O.risk = 6
    /\ O.risk_class = -1

Contiguous(remap) ==
    /\ remap[1][1] = 0
    /\ remap[Len(remap)][2] = ScoreOne
    /\ \A i \in 1..Len(remap) :
          /\ remap[i][1] < remap[i][2]
          /\ i < Len(remap) => remap[i][2] = remap[i + 1][1]

\* the ranges that own the score v: the first range is closed, every later range is
\* open at its lower bound
Owners(v, remap) ==
    {i \in 1..Len(remap) :
        \/ (i = 1 /\ remap[i][1] <= v /\ v <= remap[i][2])
        \/ (i > 1 /\ remap[i][1] < v /\ v <= remap[i][2])}

\* C6: each of the 15 RSF tables has 0 < bp1 < ... < bp9 < 1 and ten contiguous
\* ranges from 0 to 1; the 11 risk ranges and the 7 denning ranges are contiguous
\* from 0 to 1 with increasing bounds; every score, also one equal to a breakpoint,
\* gets exactly one class.
C6_Partition ==
    /\ Len(RSFLadder) = 15
    /\ \A b \in 1..Len(RSFLadder) :
          LET bp == RSFLadder[b].bp
          IN /\ Len(bp) = 9
             /\ 0 < bp[1]
             /\ \A k \in 1..8 : bp[k] < bp[k + 1]
             /\ bp[9] < ScoreOne
             /\ Len(RSFRemap(bp)) = 10
             /\ Contiguous(RSFRemap(bp))
    /\ Len(RiskRemap) = 11 /\ Contiguous(RiskRemap)
    /\ Len(DenningRemap) = 7 /\ Contiguous(DenningRemap)
    /\ bpt.pc # "idle" => Contiguous(bpt.remap)
    /\ bpt.pc = "classified" =>
          /\ bpt.value \in 0..ScoreOne
          /\ Cardinality(Owners(bpt.value, bpt.remap)) = 1
          /\ \A i \in Owners(bpt.value, bpt.remap) : bpt.class = bpt.remap[i][3]

C6_Witness ==
    /\ bpt.pc = "classified"
    /\ bpt.table = "RSF"
    /\ bpt.branch = 15
    /\ bpt.value = bpt.remap[3][2]
    /\ bpt.class = 3

C7_Units == {"Yellowhead", "Grande Cache", "Clearwater", "Livingstone-Castle",
             "Swan Hills"}

SeasonOp(s) == IF s = 1 THEN "rsf_s1" ELSE IF s = 2 THEN "rsf_s2" ELSE "rsf_s3"

\* C7: the ladder has one branch for each of the 15 keys (five units x three
\* seasons), writing the raster of its own season; for any other unit no branch is
\* taken, calRSF writes nothing and the run ends in error.
C7_Ladder ==
    /\ {<<RSFLadder[i].popunit, RSFLadder[i].season>> : i \in 1..Len(RSFLadder)} =
          C7_Units \X {1, 2, 3}
    /\ \A u \in C7_Units, s \in 1..3 :
          /\ Cardinality({i \in 1..Len(RSFLadder) :
                RSFLadder[i].popunit = u /\ RSFLadder[i].season = s}) = 1
          /\ LadderBranch(u, s) # 0
          /\ RSFLadder[LadderBranch(u, s)].popunit = u
          /\ RSFLadder[LadderBranch(u, s)].op = SeasonOp(s)
    /\ \A u \in PopUnitArgs \ C7_Units, s \in 1..3 : LadderBranch(u, s) = 0
    /\ Ran("calRSF") =>
          IF argv.popunit \in C7_Units
          THEN /\ pc # "error"
               /\ Len(used) = 3
               /\ \A s \in 1..3 :
                     /\ RSFLadder[used[s]].popunit = argv.popunit
                     /\ RSFLadder[used[s]].season = s
                     /\ O[SeasonOp(s)] \in 1..10
          ELSE /\ pc = "error"
               /\ used = <<>>
               /\ O = NoO

C7_Witness ==
    /\ Ran("calRSF")
    /\ argv.popunit = "Chinchaga"
    /\ pc = "error"
    /\ O.rsf_s1 = NoData
    /\ O.rsf_class = NoData

\* C8 (as stated): after fAge, the regen canopy closure of every cell whose regen flag
\* was positive is at least the closure before, for every forecast age above 1.
C8_Monotonic ==
    (LastRan("fAge") /\ pre.rgn > 0) => TR.cc_rgn >= pre.cc_rgn

\* C8 (amended): for forecast ages 2..112 and cells whose regen flag is positive
\* before aging and 1 after it, the regen canopy closure after fAge is at least the
\* closure before.
C8_MonotonicWhileRegen ==
    (/\ LastRan("fAge")
     /\ pre.rgn > 0
     /\ YearsForward \in 2..112
     /\ TR.rgn = 1) => TR.cc_rgn >= pre.cc_rgn

C8_Witness ==
    /\ LastRan("fAge")
    /\ pre.rgn > 0
    /\ YearsForward = 112
    /\ TR.rgn = 1
    /\ pre.cc_rgn = 30 * CCUnit
    /\ TR.cc_rgn > pre.cc_rgn

\* C9: after fAge the regen flag is 0 when the forecast age (years forward + regen
\* age) exceeds 50 or is not positive, and 1 only when it is in 1..50.
C9_RegenFlag ==
    (LastRan("fAge") /\ ~IsNull(pre.rgnage)) =>
        LET fa == YearsForward + pre.rgnage
        IN /\ (fa > 50 \/ fa <= 0) => TR.rgn = 0
           /\ TR.rgn = 1 => fa \in 1..50

\* C10: the land cover written for a clearing of a given age is barren (7) up to 3,
\* upland herb (3) for 4..17, the shrub class of secInputs for 18..30 and treed (1)
\* above 30: four different classes.
C10_AgeBands ==
    (/\ LastRan("addClearing")
     /\ argv.clearingyr # "#"
     /\ TR.rgnage # pre.rgnage) =>
        LET age == TR.rgnage
        IN /\ age <= 3 => TR.lcov = 7
           /\ (age > 3 /\ age <= 17) => TR.lcov = 3
           /\ (age > 17 /\ age <= 30) => TR.lcov \in ShrubCodes
           /\ age > 30 => TR.lcov = 1

\* the four rasters addClearing mosaics
Mosaicked(w) == <<w.rgn, w.rgnage, w.cc_rgn, w.lcov>>

\* a polygon cleared in yr was written to the cell by the last addClearing (the ages of
\* the polygons differ from every regen age of the base cells)
Wrote(yr) ==
    /\ LastRan("addClearing")
    /\ argv.clearingyr # "#"
    /\ yr \in fc
    /\ TR.rgnage = BaseYear - yr
    /\ pre.rgnage # BaseYear - yr

\* C11 (as stated): a polygon cleared in 2010 gets age 8, land cover 3 and canopy
\* closure 15.43, stored as computed; the stored closure is never below 0.
C11_ClearingCC ==
    /\ Wrote(2010) =>
          /\ TR.rgnage = 8
          /\ TR.lcov = 3
          /\ ClearingCC(8) = 154300
          /\ TR.cc_rgn * 10000 = ClearingCC(8) * CCUnit
    /\ LastRan("addClearing") => TR.cc_rgn >= 0

\* C11 (amended): a polygon cleared in 2010 gets age 8, land cover 3 and a computed
\* canopy closure of 15.3343, which passes the clamp and is stored in the SHORT field
\* CC as the whole number 15; for every age the stored closure is a whole number that
\* is never below 0 (0 when the curve is negative).
C11_ClearingCCWhole ==
    /\ ClearingCC(8) = 153343
    /\ Wrote(2010) =>
          /\ TR.rgnage = 8
          /\ TR.lcov = 3
          /\ TR.cc_rgn = 15 * CCUnit
    /\ \A yr \in ClearingYearsEdge :
          Wrote(yr) =>
              /\ TR.cc_rgn >= 0
              /\ TR.cc_rgn % CCUnit = 0
              /\ ClearingCC(BaseYear - yr) < 0 => TR.cc_rgn = 0
              /\ ClearingCC(BaseYear - yr) >= 0 =>
                     TR.cc_rgn \div CCUnit \in ShortField(ClearingCC(BaseYear - yr))
    /\ LastRan("addClearing") => TR.cc_rgn >= 0

C11_Witness ==
    /\ Wrote(2010)
    /\ TR.cc_rgn = 15 * CCUnit
    /\ pre.cc_rgn = 80 * CCUnit

\* C12: with a clearing-year field, a polygon is written to the cell only if the
\* forecast year has reached its clearing year, and every such polygon is selected;
\* what is written is the polygon's regen flag (1 up to 50 years after the clearing,
\* 0 later), age, closure and land cover; a cell under polygons of later years only
\* keeps its regen flag, regen age, regen closure and land cover.
C12_ClearingExists ==
    /\ \A yr \in ClearingYearsEdge, f \in ClearingFcstYears :
       \A row \in ClearingRows(yr, f) :
          /\ row.EXISTS = 1 <=> f >= yr
          /\ row.EXISTS = 1 =>
                /\ row.REGEN = 1 <=> f - yr <= 50
                /\ row.REGEN \in {0, 1}
                /\ Mosaicked(addClearing(pre, R, row)) =
                      <<row.REGEN, row.AGE, row.CC * CCUnit, row.GRIDCODE>>
          /\ row.EXISTS = 0 => Mosaicked(addClearing(pre, R, row)) = Mosaicked(pre)
    /\ (LastRan("addClearing") /\ argv.clearingyr # "#") =>
          /\ \A yr \in fc : argv.fcstyr < yr => ~Wrote(yr)
          /\ \/ Mosaicked(TR) = Mosaicked(pre)
             \/ \E yr \in fc :
                   /\ argv.fcstyr >= yr
                   /\ TR.rgnage = BaseYear - yr
                   /\ TR.rgn = IF argv.fcstyr - yr <= 50 THEN 1 ELSE 0
                   /\ TR.lcov = ClearingGridcode(BaseYear - yr)

C12_Witness ==
    /\ Wrote(1980)
    /\ argv.fcstyr = 1980 + 50
    /\ pre.rgn = 0
    /\ TR.rgn = 1
    /\ BaseYear + 12 \in fc
    /\ pre.lcov = 5
    /\ TR.lcov = 1

\* the argument of a scenario edit is absent
Absent(e) ==
    IF e = "addClearing" THEN argv.newClearing = "#"
    ELSE IF e = "addLnHerb" THEN argv.newHerb = "#"
    ELSE IF e = "addRoads" THEN argv.newRoads = "#"
    ELSE IF e = "rclmRoads" THEN argv.recRoads = "#"
    ELSE argv.fcstyr = argv.deliv_yr

\* working rasters that clipData followed by the edits that ran can leave: each edit
\* that ran is applied to what the edits before it left, the others are identities
LeftByClearing ==
    IF Ran("addClearing")
    THEN {addClearing(clipData(R), R, row) :
             row \in ClearingInputs(argv.clearingyr, argv.fcstyr)}
    ELSE {clipData(R)}

LeftByLnHerb ==
    IF Ran("addLnHerb")
    THEN {addLnHerb(w, b) : w \in LeftByClearing, b \in BOOLEAN}
    ELSE LeftByClearing

LeftByRoads ==
    IF Ran("addRoads")
    THEN {addRoads(w, b) : w \in LeftByLnHerb, b \in BOOLEAN}
    ELSE LeftByLnHerb

LeftByRclm ==
    IF Ran("rclmRoads")
    THEN {rclmRoads(w, argv.recRdType, b, f) :
             w \in LeftByRoads, b \in BOOLEAN, f \in FocalResults}
    ELSE LeftByRoads

LeftByAge ==
    IF Ran("fAge") THEN {fAge(w, YearsForward) : w \in LeftByRclm} ELSE LeftByRclm

\* provenance of the decay-distance rasters left by clipData and the edits that ran
LeftNed ==
    LET n0 == clipNed(argv.process, NoNed)
        n1 == IF Ran("addLnHerb") THEN addLnHerbNed(argv.process, n0) ELSE n0
        n2 == IF Ran("addRoads") THEN addRoadsNed(argv.process, n1) ELSE n1
    IN IF Ran("rclmRoads") THEN {rclmRoadsNed(n2, b) : b \in BOOLEAN} ELSE {n2}

\* the section of main() that calls the edit
EditSection(e) ==
    IF e = "addClearing" THEN "sec3"
    ELSE IF e = "addLnHerb" THEN "sec4"
    ELSE IF e = "addRoads" THEN "sec5"
    ELSE IF e = "rclmRoads" THEN "sec6"
    ELSE "sec7"

\* what holds when secInputs starts
AtSecInputs ==
    pc = "sec8" =>
        /\ TR \in LeftByAge
        /\ ned \in LeftNed
        /\ (\A e \in Edits : Absent(e)) =>
              /\ TR = clipData(R)
              /\ ned = clipNed(argv.process, NoNed)

\* C13: an edit whose argument is "#" (and fAge when the forecast year is the
\* deliverable year) is not called: its section leaves every working raster and
\* every decay-distance raster as it found them, so when secInputs starts they hold
\* what clipData and the edits that were called left.
C13_AbsentEdit ==
    [][/\ \A e \in Edits :
             (Absent(e) /\ pc = EditSection(e)) =>
                 /\ TR' = TR
                 /\ ned' = ned
                 /\ ran' = ran
       /\ \A e \in Edits : Absent(e) => \A i \in 1..Len(ran') : ran'[i] # e
       /\ AtSecInputs']_vars

C13_Witness ==
    /\ pc = "sec8"
    /\ Ran("addClearing")
    /\ \A e \in Edits \ {"addClearing"} : Absent(e)
    /\ TR # clipData(R)
    /\ TR.lcov = 3
    /\ ned.rd = "clip"

\* C14: after addLnHerb (code 3) and addRoads (code 7) a cell inside the buffered
\* right-of-way holds the code as land cover and 0 as regen closure, treed closure and
\* regen flag (addLnHerb also 0 as percent conifer); a cell outside the right-of-way
\* holds in every working raster the value it held before the edit.
C14_PickByPriority ==
    /\ LastRan("addLnHerb") =>
          /\ addLnHerb(pre, TRUE) = [pre EXCEPT !.lcov = 3, !.cc_rgn = 0, !.cc_trd = 0,
                                                !.rgn = 0, !.pctcon = 0]
          /\ addLnHerb(pre, FALSE) = pre
          /\ TR \in {addLnHerb(pre, TRUE), pre}
    /\ LastRan("addRoads") =>
          /\ addRoads(pre, TRUE) = [pre EXCEPT !.lcov = 7, !.cc_rgn = 0, !.cc_trd = 0,
                                               !.rgn = 0]
          /\ addRoads(pre, FALSE) = pre
          /\ TR \in {addRoads(pre, TRUE), pre}

C14_Witness ==
    /\ LastRan("addRoads")
    /\ pre.lcov = 5 /\ pre.rgn = 1 /\ pre.cc_rgn = 30 * CCUnit
    /\ TR.lcov = 7 /\ TR.rgn = 0 /\ TR.cc_rgn = 0 /\ TR.cc_trd = 0
    /\ TR.pctcon = pre.pctcon
    /\ Ran("addLnHerb")

\* the five rasters after match-neighbours at a footprint cell with focal results f
Matched(w, f) ==
    [w EXCEPT !.lcov   = IF IsNull(f.lcov) THEN 3 ELSE f.lcov,
              !.rgn    = IF IsNull(f.rgn) THEN 0 ELSE f.rgn,
              !.cc_rgn = f.cc_rgn,
              !.cc_trd = f.cc_trd,
              !.pctcon = f.pctcon]

\* C15: with the match-neighbours type a footprint cell gets the focal results of the
\* five rasters, land cover back-filled with 3 and regen with 0 where the focal result
\* is null; a cell outside the footprint keeps its previous value in all five rasters.
C15_MatchNeighbours ==
    (LastRan("rclmRoads") /\ argv.recRdType \notin {"Barren", "Herb", "#"}) =>
        /\ \A f \in FocalResults :
              rclmRoads(pre, argv.recRdType, TRUE, f) = Matched(pre, f)
        /\ rclmRoads(pre, argv.recRdType, FALSE, NoFocal) = pre
        /\ TR \in {Matched(pre, f) : f \in FocalResults} \cup {pre}

\* C16: after calRSF each seasonal raster holds the class of its season, untouched by
\* the deletions; rsf_max is the maximum of the three, except that with habitat
\* deletions a cell inside a deletion polygon holds 0; a deleted cell has rsf_class 0.
C16_MaxAcrossSeasons ==
    (Ran("calRSF") /\ pc # "error") =>
        LET m == Max(O.rsf_s1, Max(O.rsf_s2, O.rsf_s3))
        IN /\ \A s \in 1..3 :
                 /\ O[SeasonOp(s)] \in 1..10
                 /\ O[SeasonOp(s)] =
                       ReclassifyRange(eng.rsf_rng[s], RSFRemap(RSFLadder[used[s]].bp))
           /\ applyHabitatDeletions(m, TRUE) = 0
           /\ applyHabitatDeletions(m, FALSE) = m
           /\ argv.habDel = "#" => O.rsf_max = m
           /\ argv.habDel # "#" => O.rsf_max \in {m, 0}
           /\ O.rsf_max = 0 => O.rsf_class = 0
           /\ O.rsf_max = m => O.rsf_class = classifyToThreeTier(m)

C16_Witness ==
    /\ Ran("calRSF")
    /\ argv.habDel # "#"
    /\ O.rsf_s1 = 10 /\ O.rsf_s2 = 5 /\ O.rsf_s3 = 1
    /\ O.rsf_max = 0
    /\ O.rsf_class = 0


\* the layer of the current pass of step 6 has its change raster written
ChangeWritten == cd.pc \in {"ref", "scnro", "pct", "total", "plot", "error"} /\ cd.cells # <<>>

\* COUNT of the row of a table with VALUE v, 0 without such a row
CountOf(table, v) ==
    SumSeq([i \in 1..Len(table) |-> IF table[i][1] = v THEN table[i][2] ELSE 0])

\* cells of the pair of rasters whose signed difference is d
CellsWithDifference(d) ==
    SumSeq([k \in 1..Len(cd.cells) |->
               IF (IF cd.name = "Risk" THEN cd.cells[k][1] - cd.cells[k][2]
                   ELSE cd.cells[k][2] - cd.cells[k][1]) = d
               THEN cd.cells[k][3] ELSE 0])

\* C17: the change raster of a layer is reference - scenario for Risk and
\* scenario - reference for every other layer; cells whose difference is 0 are NoData
\* in it, so the changed area counts only the cells with a non-zero difference
C17_ChangeRaster ==
    ChangeWritten =>
        /\ \A i \in 1..Len(cd.change) : cd.change[i][1] \notin {0, NoData}
        /\ \A d \in (-NumClasses - 1)..(NumClasses + 1) :
              d # 0 => CountOf(cd.change, d) = CellsWithDifference(d)
        /\ SumSeq([i \in 1..Len(cd.change) |-> cd.change[i][2]]) =
              SumSeq([k \in 1..Len(cd.cells) |->
                         IF cd.cells[k][1] # cd.cells[k][2] THEN cd.cells[k][3] ELSE 0])
        /\ cd.pc = "ref" =>
              /\ cd.change = <<>> => cd.ChangeDetectionArea = <<0>>
              /\ cd.change # <<>> =>
                    cd.ChangeDetectionArea =
                        [i \in 1..Len(cd.change) |->
                            RoundDiv(cd.change[i][2] * CellSize * CellSize, 10000)]

C17_Witness ==
    /\ cd.pc = "ref"
    /\ cd.name = "RSF Max"
    /\ cd.cells = <<<<1, 1, 60>>, <<1, 2, 40>>>>
    /\ cd.change = <<<<1, 40>>>>
    /\ cd.ChangeDetectionArea = <<4>>

\* the pair of rasters of the end-to-end report: 100 reference cells at value 1,
\* 60 scenario cells at value 1 and 40 at value 0; the percent changes are computed
EndToEnd == cd.pc \in {"total", "plot"} /\ cd.cells = <<<<1, 1, 60>>, <<1, 0, 40>>>>

\* position of a class in the lists of the current layer
ClassIndex(v) == IndexOf(ValuesCheck(cd.name), v)

FirstRsfLayer ==
    \A j \in 1..(cd.iter - 1) : cd.names[j] \in {"Habitat States", "Risk"}

ScenarioArea ==
    RoundDiv(SumSeq([k \in 1..Len(cd.cells) |-> cd.cells[k][3]]) * CellSize * CellSize,
             10000)

\* C19: the overall percent change is sum(changed area) / total scenario area * 100,
\* rounded to one decimal, and 0 when the changed area is 0; the total it divides by is
\* the area of all scenario cells (within the rounding of the class areas), so the
\* division is defined and the result lies in 0..100
C19_TotalPctChange ==
    /\ ~(cd.pc = "error" /\ cd.errAt = "totalPctChange")
    /\ cd.pc = "plot" =>
          /\ cd.totalPctChange \in 0..1000
          /\ SumSeq(cd.ChangeDetectionArea) = 0 => cd.totalPctChange = 0
          /\ SumSeq(cd.scnroAreaValues) - ScenarioArea \in
                (-Len(cd.scnroAreaValues))..Len(cd.scnroAreaValues)
          /\ SumSeq(cd.ChangeDetectionArea) # 0 =>
                cd.totalPctChange =
                    RoundDiv(1000 * SumSeq(cd.ChangeDetectionArea), ScenarioArea)

\* a selected layer whose reference and scenario rasters differ in X or in Y cell size
CellSizeMismatch ==
    \E j \in 1..Len(cd.sizes) :
        \/ cd.sizes[j].refX # cd.sizes[j].scnroX
        \/ cd.sizes[j].refY # cd.sizes[j].scnroY

\* C20: when a reference raster and its scenario raster differ in X or in Y cell
\* size, the run exits in step 4: it never goes beyond step 4, and no aligned
\* raster, change raster or plot is written
C20_CellSizeMismatch ==
    CellSizeMismatch =>
        /\ cd.pc \in {"step2", "step3", "step4", "exit"}
        /\ cd.aligned = 0
        /\ cd.written = 0
        /\ cd.plots = 0

\* the layer of the current pass is an RSF layer whose two area lists are filled
RsfAreasRead ==
    /\ cd.pc \in {"pct", "total", "plot"}
    /\ cd.name \notin {"", "Habitat States", "Risk"}

\* area of the cells of value v in the reference (col = 1) or scenario (col = 2) raster
OwnArea(col, v) ==
    RoundDiv(SumSeq([k \in 1..Len(cd.cells) |->
                        IF cd.cells[k][col] = v THEN cd.cells[k][3] ELSE 0])
             * CellSize * CellSize, 10000)

\* C27: for an RSF layer the class-1 area of the reference, and of the scenario, is
\* the area of that raster's own cells of value 1 plus the area of its own cells of
\* value 0, whatever layers were processed before it in the run
C27_OwnZeroArea ==
    RsfAreasRead =>
        /\ cd.refAreaValues[1] = OwnArea(1, 1) + OwnArea(1, 0)
        /\ cd.scnroAreaValues[1] = OwnArea(2, 1) + OwnArea(2, 0)

\* C29: section 7 calls fAge exactly when forecast year - deliverable year > 1, with
\* that difference as the age; when the difference is 0, 1 or negative no working
\* raster is changed by section 7 and fAge does not run.  The closure increment of
\* the ages that are left out (0 and 1) is negative, that of age 2 is not.
C29_ForecastAgeGuard ==
    [][/\ pc = "sec7" =>
             IF YearsForward > 1
             THEN /\ ran' = Append(ran, "fAge")
                  /\ TR' = fAge(TR, YearsForward)
             ELSE /\ ran' = ran
                  /\ TR' = TR
                  /\ ned' = ned
       /\ pc # "sec7" => \A i \in (Len(ran) + 1)..Len(ran') : ran'[i] # "fAge"
       /\ ForecastCC(0) < 0
       /\ ForecastCC(1) < 0
       /\ ForecastCC(2) > 0]_vars

C29_Witness ==
    /\ pc = "sec8"
    /\ YearsForward = 1
    /\ ~Ran("fAge")
    /\ Ran("addRoads")
    /\ TR.lcov = 7

\* position of the first call of f in the run
FirstRan(f) == CHOOSE i \in 1..Len(ran) : ran[i] = f /\ \A j \in 1..(i - 1) : ran[j] # f

\* C28: calHState runs only after calRSF and calRisk of the same run, with rsf_class
\* and risk_class written; process 2 never runs calRisk, rclmRoads or calHState,
\* process 3 never runs calRSF or calHState; the layer files createLayerFiles writes
\* read only outputs the chosen process has written
C28_ProcessOutputs ==
    /\ Ran("calHState") =>
          /\ argv.process = 1
          /\ Ran("calRSF") /\ Ran("calRisk")
          /\ FirstRan("calRSF") < FirstRan("calHState")
          /\ FirstRan("calRisk") < FirstRan("calHState")
          /\ O.rsf_class # NoData /\ O.risk_class # NoData
    /\ argv.process = 2 => ~Ran("calRisk") /\ ~Ran("rclmRoads") /\ ~Ran("calHState")
    /\ argv.process = 3 => ~Ran("calRSF") /\ ~Ran("calHState")
    /\ \A i \in 1..Len(lyrList) :
          (\E k \in 1..Len(log) : log[k] = lyrList[i]) =>
              \A f \in lyrOutputs[i] : O[f] # NoData
    /\ LastRan("createLayerFiles") =>
          \E k \in 1..Len(log) : log[k] \in {lyrList[2], lyrList[3]}

C28_Witness ==
    /\ LastRan("createLayerFiles")
    /\ argv.process = 2
    /\ argv.recRoads # "#"
    /\ O.rsf_class # NoData
    /\ O.risk = NoData
    /\ O.habState = NoData

\* class i is absent from the extent: its mask holds the single value 0
AbsentClass(i) == eng.numrecs[i] = 1 /\ ipLC(sec, TR)[i] = 0

\* classes whose edge distance the process derives
DerivedClasses(p) == IF p # 3 THEN 1..6 ELSE {4}

\* C25: once secInputs has run, for every land-cover class absent from the extent
\* the distance transform was not invoked and the edge-distance output is the
\* constant 0 (for regen the copy of the mask, also 0); and after rclmRoads the
\* decay to roads is either the cost-distance decay or the constant raster
C25_AbsentClassConstant ==
    /\ pc = "sec9" =>
          \A i \in DerivedClasses(argv.process) :
              AbsentClass(i) =>
                  /\ \A k \in 1..Len(sec.edges) : sec.edges[k] # lblProcess[i]
                  /\ sec[opMA[i]] = 0
    /\ LastRan("rclmRoads") => ned.rd \in {"rclmRoads", "zero"}

\* the guarded classes alone keep the claim: regen, upland herb and wet treed
C25_GuardedClassesConstant ==
    pc = "sec9" /\ argv.process # 3 =>
        \A i \in 1..3 :
            AbsentClass(i) =>
                /\ \A k \in 1..Len(sec.edges) : sec.edges[k] # lblProcess[i]
                /\ sec[opMA[i]] = 0

\* an absent non-vegetated class went through the distance transform
C25_UnguardedInvoked ==
    /\ pc = "sec9"
    /\ argv.process = 1
    /\ AbsentClass(6)
    /\ \E k \in 1..Len(sec.edges) : sec.edges[k] = "non-veg"

\* C23: every call of a license check function returns "yes" or "no": "yes" when
\* the product or extension is available, "no" with a message otherwise, and a
\* call that returns "no" has set no product and checked out no extension
C23_ChecksReturnYesNo ==
    lic.pc = "returned" =>
        /\ lic.raised = ""
        /\ lic.go \in {"yes", "no"}
        /\ lic.go = "yes" <=> lic.status \in {"Available", "AlreadyInitialized"}
        /\ lic.go = "no" => lic.msg # "" /\ lic.product = "" /\ lic.ext = ""

\* CheckArcEditor asked about a product that is not licensed
C23_ArcEditorRaises ==
    /\ lic.pc = "returned"
    /\ lic.fn = "CheckArcEditor"
    /\ lic.status = "NotLicensed"
    /\ lic.raised = "NameError"

\* the four other functions answer "yes" or "no" for every status
C23_OthersReturnYesNo ==
    lic.pc = "returned" /\ lic.fn # "CheckArcEditor" =>
        /\ lic.raised = ""
        /\ lic.go \in {"yes", "no"}
        /\ lic.go = "yes" <=> lic.status \in {"Available", "AlreadyInitialized"}
        /\ lic.go = "no" => lic.msg # "" /\ lic.product = ""

\* a license check of the tool returned "no"
Refused == lic.info = "no" \/ lic.spatial = "no"

\* C22 as stated: when a license check returns "no" the tool has created or
\* deleted nothing and invoked no operation
C22_NothingBeforeAbort ==
    lic.pc \in {"test", "aborted", "run"} /\ Refused => lic.made = <<>>

\* C22: when a license check returns "no" the tool stops at the license test and
\* nothing behind the test runs; what exists is what the tool made while loading:
\* nothing in ChangeDetection, the results folder and the log file in HabitatStates
\* and DenningRSF (HabitatStates also cleared the in_memory workspace)
C22_AbortBeforeSections ==
    /\ lic.pc \in {"aborted", "run"} /\ Refused =>
          /\ lic.pc = "aborted"
          /\ lic.made = Preamble(lic.tool, lic.folder)
          /\ \A k \in 1..Len(lic.made) :
                \A j \in 1..Len(Processing(lic.tool)) :
                    lic.made[k] # Processing(lic.tool)[j]
          /\ lic.tool = "ChangeDetection" => lic.made = <<>>
    /\ lic.pc = "run" => lic.info = "yes" /\ lic.spatial = "yes"

C22_Witness ==
    /\ lic.pc = "aborted"
    /\ lic.tool = "HabitatStates"
    /\ lic.info = "yes"
    /\ lic.spatial = "no"
    /\ lic.made = <<"Delete in_memory", "mkdir OP", "open tool_log.txt">>

DenRan(f) == \E i \in 1..Len(den.ran) : den.ran[i] = f

DenLastRan(f) == Len(den.ran) > 0 /\ den.ran[Len(den.ran)] = f

DenBefore(f, g) ==
    \A i, j \in 1..Len(den.ran) : den.ran[i] = f /\ den.ran[j] = g => i < j

InvalidPair(g) ==
    \/ ~g.refExists \/ ~g.scnroExists
    \/ g.refType # "Projected" \/ g.scnroType # "Projected"
    \/ g.refSR # g.scnroSR
    \/ g.refRowCol # g.scnroRowCol

\* C21: when a selected pair of rasters fails validation the run stops in steps
\* 2 to 4: no raster is aligned, no change raster is written and no plot is made
C21_ValidationFatal ==
    (\E k \in 1..Len(cd.props) : InvalidPair(cd.props[k])) =>
        /\ cd.pc \in {"step2", "step3", "step4", "exit"}
        /\ cd.aligned = 0
        /\ cd.written = 0
        /\ cd.plots = 0

\* the failures the code does stop on: a raster missing, a raster not projected,
\* or spatial references with different aliases
C21_TestedFailuresFatal ==
    (\E k \in 1..Len(cd.props) :
        LET g == cd.props[k]
        IN \/ ~g.refExists \/ ~g.scnroExists
           \/ g.refType # "Projected" \/ g.scnroType # "Projected"
           \/ g.refAlias # g.scnroAlias) =>
        /\ cd.pc \in {"step2", "step3", "step4", "exit"}
        /\ cd.aligned = 0
        /\ cd.written = 0
        /\ cd.plots = 0

\* a report was made of rasters in two different coordinate systems
C21_DifferentCRSReported ==
    /\ cd.pc = "plot"
    /\ cd.props[cd.iter].refSR # cd.props[cd.iter].scnroSR

\* passes of step 5 in which the engine refused an ExtractByMask
AlignErrors == {k \in 1..cd.aligned : cd.props[k].align # "ok"}

\* C24: an engine error of step 5 is logged and ends the run: no later pass of
\* step 5 and no pass of step 6 is made
C24_EngineErrorFatal ==
    AlignErrors # {} =>
        /\ cd.errors >= 1
        /\ cd.pc = "exit"
        /\ cd.aligned = MinOf(AlignErrors)
        /\ cd.iter = 0 /\ cd.written = 0 /\ cd.plots = 0

\* the error is logged, and never more than once for a pass (no second attempt)
C24_EngineErrorLogged ==
    cd.pc # "exit" => cd.errors = Cardinality(AlignErrors)

\* a function of DenningRSF that raised is logged and ends main()
C24_DenningFatal ==
    den.err # "" =>
        /\ den.pc = "failed"
        /\ den.errors >= 1
        /\ \A i, j \in 1..Len(den.ran) : i # j => den.ran[i] # den.ran[j]

\* C26: in every pass of step 6 the plot name is paired with the aligned reference
\* raster and the aligned scenario raster of its own layer
C26_PairedByLayer ==
    cd.name # "" => cd.refLayer = cd.name /\ cd.scnroLayer = cd.name

\* with every pair aligned and the layers selected in the order of the raster
\* names, each name gets its own rasters
C26_PairedWhenSortedAndAligned ==
    /\ cd.name # ""
    /\ cd.names = ListRasters({cd.names[i] : i \in 1..Len(cd.names)})
    /\ \A k \in 1..Len(cd.props) : cd.props[k].align = "ok"
    => cd.refLayer = cd.name /\ cd.scnroLayer = cd.name

\* the habitat states were reported from the reference habitat states and the
\* scenario risk, after the scenario habitat states failed to align
C26_MixedLayers ==
    /\ cd.pc = "plot"
    /\ cd.names = <<"Habitat States", "Risk">>
    /\ cd.name = "Habitat States"
    /\ cd.refLayer = "Habitat States"
    /\ cd.scnroLayer = "Risk"
=============================================================================
